---- MODULE Spec2Model ----
(***************************************************************************)
(* Rules/state engine of the Spider Solitaire game (src/logic.js).         *)
(*                                                                         *)
(* The engine keeps one mutable `state` object.  Cards are JavaScript      *)
(* objects that are shared by reference between the tableau, the stock,    *)
(* the foundations list and the history entries, so the model keeps an     *)
(* object store `cards` (address -> card record) and every container holds *)
(* addresses.  A fresh address is taken whenever the code creates a new    *)
(* object (createDeck, structuredClone).                                   *)
(***************************************************************************)
EXTENDS Integers, Sequences, FiniteSets, TLC

VARIABLES state, cards, firstMoveLogged, sent, lastCall, calls

vars == <<state, cards, firstMoveLogged, sent, lastCall, calls>>

\* ---- bounds of the exploration ----
\* calls that change the engine state (newGame included) in one behaviour
MaxCalls == 4

\* ---- program constants ----
NumCols == 10
NumRanks == 13
NumIds == 104
StockSize == 50
StartScore == 500
StartDeals == 5
CompleteBonus == 100
WinCount == 8
RedoSpliceCount == 13

Null == -1
Cols == 0..(NumCols - 1)

\* ---- generic helpers for JavaScript arrays (0-based in the source) ----
Max(a, b) == IF a > b THEN a ELSE b
Min(a, b) == IF a < b THEN a ELSE b

Range(s) == {s[i] : i \in 1..Len(s)}

\* Array.prototype.splice(start, deleteCount): the array that is left
Splice(arr, start, deleteCount) ==
  LET len == Len(arr)
      s == IF start < 0 THEN Max(len + start, 0) ELSE Min(start, len)
      dc == Min(Max(deleteCount, 0), len - s)
  IN SubSeq(arr, 1, s) \o SubSeq(arr, s + dc + 1, len)

\* Array.prototype.findIndex(c => c.id === id): 1-based here, 0 when absent
FindIndexById(h, col, id) ==
  LET hits == {i \in 1..Len(col) : h[col[i]].id = id}
  IN IF hits = {} THEN 0 ELSE CHOOSE i \in hits : \A j \in hits : i <= j

\* ---- Deck & Dealing ----
SuitsOf(difficulty) ==
  IF difficulty = "1-suit"
    THEN <<"S", "S", "S", "S", "S", "S", "S", "S">>
  ELSE IF difficulty = "2-suit"
    THEN <<"S", "S", "S", "S", "D", "D", "D", "D">>
  ELSE <<"S", "D", "H", "C", "S", "D", "H", "C">>

\* createDeck without the loop of lines 78-84: the Aces stay in the deck
createDeckFull(difficulty, includeAces) ==
  LET suits == SuitsOf(difficulty)
  IN [k \in 1..NumIds |->
        [id |-> k - 1,
         suit |-> suits[((k - 1) \div NumRanks) + 1],
         rank |-> ((k - 1) % NumRanks) + 1,
         faceUp |-> FALSE]]

\* createDeck: the card records in creation order, Aces spliced out when
\* includeAces is false; ids are not renumbered
createDeck(difficulty, includeAces) ==
  LET suits == SuitsOf(difficulty)
      full == [k \in 1..NumIds |->
                 [id |-> k - 1,
                  suit |-> suits[((k - 1) \div NumRanks) + 1],
                  rank |-> ((k - 1) % NumRanks) + 1,
                  faceUp |-> FALSE]]
  IN SelectSeq(full, LAMBDA c : includeAces \/ c.rank # 1)

\* ---- PRNG ----
\* mulberry32(hashSeed(difficulty + ':' + seed)) is a deterministic stream;
\* what shuffle consumes of it is the index j = (rnd() * (i + 1)) | 0 drawn at
\* each step, so the stream is kept as the sequence of those indices: the
\* n - 1 draws of the shuffle in newGame, then the n - 1 draws of the shuffle
\* in initialDeal.  The seeds name streams; the arithmetic of mulberry32 is
\* not modelled, the streams are picked so that the deals bring runs of a
\* suit together within a few calls.
\* ---- draw streams: begin ----
RngDraws(difficulty, seed, n) ==
  CASE difficulty = "2-suit" /\ seed = "s1" /\ n = 96 ->
      <<27, 26, 6, 60, 48, 90, 50, 53, 9, 72, 80, 25, 34, 43, 11, 39, 42, 1,
         52, 15, 17, 31, 12, 1, 7, 59, 62, 22, 24, 57, 65, 24, 16, 26, 41, 24,
         7, 25, 26, 13, 0, 17, 51, 37, 19, 1, 13, 11, 25, 38, 41, 36, 6, 2, 9,
         13, 28, 16, 0, 21, 18, 24, 4, 4, 5, 6, 18, 20, 7, 0, 19, 11, 11, 19,
         14, 4, 18, 15, 4, 12, 5, 10, 2, 4, 3, 9, 3, 3, 2, 5, 5, 4, 1, 2, 1,
         19, 56, 75, 11, 71, 81, 36, 52, 84, 61, 23, 23, 60, 29, 51, 9, 49,
         59, 57, 15, 38, 6, 43, 8, 18, 35, 41, 13, 7, 34, 2, 37, 51, 41, 24,
         29, 12, 37, 48, 54, 25, 8, 50, 6, 48, 0, 39, 39, 39, 41, 36, 20, 28,
         30, 27, 39, 9, 35, 19, 34, 15, 17, 3, 26, 0, 22, 19, 24, 11, 18, 20,
         7, 7, 20, 3, 1, 16, 17, 9, 10, 9, 2, 6, 12, 0, 7, 4, 7, 0, 0, 5, 3,
         0, 1, 0>>
    [] difficulty = "4-suit" /\ seed = "s1" /\ n = 96 ->
      <<6, 24, 52, 15, 18, 75, 58, 5, 15, 63, 67, 17, 74, 36, 60, 60, 8, 45,
         14, 33, 15, 2, 23, 64, 44, 8, 43, 12, 21, 55, 34, 22, 5, 4, 61, 12,
         22, 43, 7, 13, 34, 16, 31, 4, 11, 1, 17, 48, 6, 37, 30, 39, 13, 25,
         22, 7, 33, 11, 2, 15, 24, 2, 13, 13, 31, 20, 12, 1, 24, 22, 22, 13,
         14, 8, 7, 7, 3, 8, 2, 5, 5, 14, 10, 5, 0, 0, 7, 2, 4, 0, 3, 0, 2, 0,
         0, 69, 2, 51, 53, 5, 57, 66, 73, 84, 21, 23, 28, 16, 14, 37, 60, 54,
         51, 62, 6, 0, 26, 29, 60, 28, 39, 31, 58, 7, 62, 29, 47, 63, 0, 20,
         57, 32, 16, 43, 50, 55, 33, 52, 1, 43, 36, 10, 35, 12, 25, 26, 10,
         32, 37, 35, 2, 21, 35, 20, 35, 10, 2, 8, 25, 1, 19, 14, 22, 9, 0, 16,
         22, 17, 15, 15, 18, 18, 16, 3, 4, 9, 6, 7, 10, 9, 3, 2, 6, 2, 4, 0,
         3, 1, 1, 1>>
    [] difficulty = "1-suit" /\ seed = "s2" /\ n = 104 ->
      <<63, 93, 78, 61, 4, 88, 11, 77, 93, 36, 59, 35, 54, 64, 52, 33, 60,
         79, 61, 49, 2, 50, 40, 41, 21, 13, 23, 40, 36, 22, 45, 54, 55, 42,
         47, 65, 4, 1, 29, 61, 11, 51, 17, 54, 37, 5, 36, 7, 12, 12, 12, 38,
         4, 4, 43, 0, 36, 27, 33, 43, 23, 0, 9, 26, 1, 5, 8, 29, 2, 1, 13, 14,
         7, 10, 11, 2, 25, 23, 15, 9, 0, 21, 0, 0, 15, 9, 10, 10, 4, 11, 5, 1,
         5, 6, 7, 7, 4, 1, 0, 4, 1, 0, 1, 7, 99, 37, 55, 40, 0, 73, 78, 25, 2,
         26, 52, 27, 79, 31, 64, 26, 13, 78, 20, 21, 17, 40, 61, 15, 16, 25,
         33, 60, 35, 19, 4, 4, 14, 43, 47, 45, 51, 53, 63, 55, 54, 55, 60, 24,
         0, 42, 16, 44, 23, 52, 45, 29, 49, 33, 7, 17, 35, 9, 8, 36, 5, 4, 24,
         22, 11, 5, 26, 15, 26, 23, 23, 12, 7, 28, 13, 22, 6, 24, 15, 23, 13,
         0, 4, 13, 4, 2, 11, 8, 5, 8, 0, 10, 7, 2, 5, 0, 2, 4, 3, 2, 1, 0>>
    [] difficulty = "1-suit" /\ seed = "s3" /\ n = 104 ->
      <<22, 98, 23, 94, 53, 43, 61, 46, 84, 35, 0, 91, 78, 81, 33, 65, 68, 7,
         20, 34, 15, 64, 33, 10, 70, 58, 18, 32, 19, 59, 23, 47, 48, 18, 14,
         59, 41, 22, 16, 34, 57, 45, 52, 54, 35, 47, 53, 55, 38, 36, 34, 29,
         1, 26, 29, 39, 31, 40, 25, 10, 9, 4, 25, 25, 33, 19, 10, 33, 29, 29,
         13, 26, 19, 14, 21, 8, 24, 17, 19, 24, 3, 21, 7, 4, 16, 9, 3, 8, 0,
         14, 1, 12, 7, 7, 7, 8, 4, 1, 4, 4, 2, 0, 1, 16, 42, 28, 12, 35, 67,
         93, 54, 75, 28, 34, 55, 45, 29, 81, 70, 58, 68, 45, 18, 26, 64, 15,
         31, 53, 37, 74, 53, 63, 14, 71, 21, 57, 30, 67, 48, 13, 29, 49, 59,
         55, 17, 54, 2, 8, 54, 7, 39, 30, 12, 29, 34, 42, 8, 0, 47, 15, 22,
         12, 32, 28, 16, 14, 39, 30, 7, 36, 19, 7, 6, 19, 21, 18, 26, 25, 5,
         11, 7, 22, 24, 13, 16, 4, 5, 17, 8, 4, 7, 7, 14, 2, 3, 1, 8, 5, 5, 3,
         1, 1, 0, 0, 2, 0>>
    [] difficulty = "1-suit" /\ seed = "s4" /\ n = 96 ->
      <<12, 14, 89, 22, 3, 16, 89, 62, 78, 78, 1, 59, 64, 21, 68, 37, 69, 56,
         50, 6, 49, 66, 35, 69, 64, 21, 43, 61, 37, 63, 12, 44, 10, 38, 36,
         53, 22, 46, 29, 43, 51, 24, 0, 28, 39, 41, 29, 6, 14, 44, 23, 43, 34,
         10, 29, 6, 15, 19, 7, 15, 27, 3, 26, 22, 29, 17, 22, 0, 5, 19, 25,
         22, 3, 15, 10, 16, 3, 16, 7, 14, 7, 2, 3, 6, 3, 4, 3, 8, 6, 3, 1, 1,
         3, 0, 1, 46, 82, 38, 14, 76, 63, 9, 71, 13, 24, 17, 56, 24, 17, 27,
         6, 77, 41, 27, 40, 48, 41, 34, 53, 10, 8, 2, 53, 36, 47, 10, 41, 32,
         20, 40, 37, 59, 44, 5, 42, 24, 10, 28, 13, 26, 36, 4, 3, 8, 12, 28,
         13, 38, 8, 24, 20, 8, 24, 9, 3, 21, 22, 31, 26, 6, 29, 16, 7, 18, 18,
         20, 9, 2, 1, 2, 2, 1, 3, 13, 5, 8, 10, 4, 9, 6, 10, 7, 1, 2, 5, 4, 4,
         2, 1, 1>>
    [] OTHER -> [k \in 1..(2 * (n - 1)) |-> 0]

\* the (difficulty, seed, includeAces) arguments newGame is called with
Games ==
  {<<"2", "s1", FALSE>>,
   <<"4-suit", "s1", FALSE>>,
   <<"1", "s2", TRUE>>,
   <<"1", "s3", TRUE>>}

\* the game of the replayed run of eight completions
EighthGame == <<"1", "s4", FALSE>>
\* ---- draw streams: end ----

\* shuffle(arr, rnd): Fisher-Yates from the last index down to 1; k counts
\* the draws taken so far, so the loop index is i = arr.length - 1 - k.
\* shuffleSpan runs n turns of the loop from draw k on: one turn is the swap
\* of line 16, more turns are run as a first half and then a second half
RECURSIVE shuffleSpan(_, _, _, _)
shuffleSpan(arr, draws, k, n) ==
  IF n <= 0 THEN arr
  ELSE IF n = 1
    THEN LET i == Len(arr) - 1 - k
             j == draws[k + 1]
         IN [arr EXCEPT ![i + 1] = arr[j + 1], ![j + 1] = arr[i + 1]]
  ELSE \* the first half is run to its end before the second half starts
       LET half == shuffleSpan(arr, draws, k, n \div 2)
       IN IF Len(half) # Len(arr) THEN arr
          ELSE shuffleSpan(half, draws, k + (n \div 2), n - (n \div 2))

shuffleFrom(arr, draws, k) == shuffleSpan(arr, draws, k, Len(arr) - 1 - k)

shuffle(arr, draws) == shuffleFrom(arr, draws, 0)

\* initialDeal(deck): deck is an array of card records, already shuffled once;
\* draws is what the second shuffle takes from state.rng
\* initialDeal without the loop of lines 105-107: no card is turned
initialDealAllDown(deck, draws) ==
  LET d == shuffle(deck, draws)
      remaining == SubSeq(d, StockSize + 1, Len(d))
  IN [tableau |-> [c \in Cols |->
                     SelectSeq(remaining, LAMBDA x :
                       \E k \in 1..Len(remaining) :
                         remaining[k] = x /\ (k - 1) % NumCols = c)],
      stock |-> SubSeq(d, 1, Min(StockSize, Len(d)))]

initialDeal(deck, draws) ==
  LET d == shuffle(deck, draws)
      n == Len(d)
      stockPart == SubSeq(d, 1, Min(StockSize, n))
      remaining == SubSeq(d, StockSize + 1, n)
      \* the k-th card handed out goes to column ColOf(k)
      ColOf(k) == IF k <= 5 * NumCols THEN (k - 1) % NumCols ELSE k - 5 * NumCols - 1
      handed == Min(Len(remaining), 5 * NumCols + 4)
      colCards(c) == SelectSeq([k \in 1..handed |-> k], LAMBDA k : ColOf(k) = c)
      cols == [c \in Cols |->
                 LET ks == colCards(c)
                 IN [i \in 1..Len(ks) |->
                       [remaining[ks[i]] EXCEPT !.faceUp = (i = Len(ks))]]]
  IN [tableau |-> cols, stock |-> stockPart]

\* ---- Rules helpers ----
top(col) == IF Len(col) = 0 THEN Null ELSE col[Len(col)]

canDrop(h, tailHead, destTop) ==
  IF destTop = Null THEN TRUE ELSE h[tailHead].rank + 1 = h[destTop].rank

\* the addresses a history entry refers to
EntryRefs(e) ==
  IF e.t = "complete" THEN Range(e.cards) \cup ({e.turned} \ {Null})
  ELSE IF e.t = "move" THEN Range(e.moved) \cup ({e.turned} \ {Null})
  ELSE Range(e.dealt)

\* every address still referenced from the engine state
Live(st) ==
  UNION {Range(st.tableau[c]) : c \in Cols}
    \cup Range(st.stock) \cup Range(st.foundationsCards)
    \cup UNION {EntryRefs(st.history[i]) : i \in 1..Len(st.history)}
    \cup UNION {EntryRefs(st.redo[i]) : i \in 1..Len(st.redo)}

\* drop the card objects nothing refers to any more
Collect(G) == [G EXCEPT !.cards = [a \in Live(G.state) |-> G.cards[a]]]

canonDiffLabel(d) ==
  IF d = "1" \/ d = "1-suit" THEN "1-suit"
  ELSE IF d = "2" \/ d = "2-suit" THEN "2-suit"
  ELSE "4-suit"

\* ---- Engine State (the module-level `state` object before any newGame) ----
InitialState ==
  [difficulty |-> "1-suit", seed |-> "", includeAces |-> FALSE,
   tableau |-> [c \in Cols |-> <<>>], stock |-> <<>>,
   dealsRemaining |-> StartDeals, foundations |-> 0,
   moves |-> 0, score |-> StartScore, running |-> FALSE,
   history |-> <<>>, redo |-> <<>>, won |-> FALSE,
   foundationsCards |-> <<>>]

\* ---- Game actions ----
\* newGame, the deck it deals: createDeck, the two shuffles (one in newGame,
\* one in initialDeal, both drawing from the stream seeded by the seed) and
\* the deal.  It depends on the arguments alone and is tabulated per game.
freshDeal(difficulty, seed, includeAces) ==
  LET diff == canonDiffLabel(difficulty)
      deck == createDeck(diff, includeAces)
      n == Len(deck)
      draws == RngDraws(diff, seed, n)
      once == shuffle(deck, SubSeq(draws, 1, n - 1))
      deal == initialDeal(once, SubSeq(draws, n, 2 * (n - 1)))
      dealt == UNION {Range(deal.tableau[c]) : c \in Cols} \cup Range(deal.stock)
  IN [cards |-> [a \in {c.id : c \in dealt} |-> CHOOSE c \in dealt : c.id = a],
      tableau |-> [c \in Cols |->
                     [i \in 1..Len(deal.tableau[c]) |-> deal.tableau[c][i].id]],
      stock |-> [i \in 1..Len(deal.stock) |-> deal.stock[i].id]]

FreshDeals == [g \in Games \cup {EighthGame} |-> freshDeal(g[1], g[2], g[3])]

\* newGame: createDeck makes new card objects (address = id); the objects
\* still listed in state.foundationsCards, which newGame does not touch, are
\* the only old ones kept alive: they are readdressed so that they stay
\* apart from the new deck
\* newGame with the deck made before line 223 stores the includeAces
\* argument: createDeck reads the flag of the game that was being played
newGamePriorAces(G, difficulty, seed, includeAces) ==
  LET deal == freshDeal(difficulty, seed, G.state.includeAces)
  IN [state |-> [G.state EXCEPT
                   !.difficulty = canonDiffLabel(difficulty), !.seed = seed,
                   !.includeAces = includeAces,
                   !.tableau = deal.tableau, !.stock = deal.stock,
                   !.dealsRemaining = StartDeals, !.foundations = 0,
                   !.moves = 0, !.score = StartScore,
                   !.history = <<>>, !.redo = <<>>, !.won = FALSE,
                   !.running = FALSE, !.foundationsCards = <<>>],
      cards |-> deal.cards, firstMoveLogged |-> FALSE, sent |-> G.sent]

newGame(G, difficulty, seed, includeAces) ==
  LET diff == canonDiffLabel(difficulty)
      deal == FreshDeals[<<difficulty, seed, includeAces>>]
      old == G.state.foundationsCards
      kept == [i \in 1..Len(old) |-> 0 - (i + 1)]
      store == [a \in DOMAIN deal.cards \cup Range(kept) |->
                  IF a >= 0 THEN deal.cards[a]
                  ELSE G.cards[old[0 - a - 1]]]
      st == [G.state EXCEPT
               !.difficulty = diff, !.seed = seed, !.includeAces = includeAces,
               !.tableau = deal.tableau,
               !.stock = deal.stock,
               !.dealsRemaining = StartDeals, !.foundations = 0,
               !.moves = 0, !.score = StartScore,
               !.history = <<>>, !.redo = <<>>, !.won = FALSE,
               !.running = FALSE,
               !.foundationsCards = kept]
  IN [state |-> st, cards |-> store, firstMoveLogged |-> FALSE, sent |-> G.sent]

\* tryComplete(col, includeAces): the inner loop over j.  seqRanks are the
\* ranks of `sequence`, idxs the collected `sequenceIndices` (1-based here).
\* The result is the index list to splice, or <<>> when the loop breaks or
\* runs out.
RECURSIVE scanDown(_, _, _, _, _, _, _)
scanDown(h, col, j, suit, seqRanks, idxs, includeAces) ==
  IF j < 1 THEN <<>>
  ELSE
    LET currentCard == h[col[j]]
        prevRank == seqRanks[Len(seqRanks)]
        isAsc == currentCard.suit = suit /\ currentCard.rank = prevRank + 1
        isDesc == currentCard.suit = suit /\ currentCard.rank = prevRank - 1
    IN IF ~currentCard.faceUp
         THEN scanDown(h, col, j - 1, suit, seqRanks, Append(idxs, j), includeAces)
       ELSE IF isAsc \/ isDesc
         THEN LET sr == Append(seqRanks, currentCard.rank)
                  ix == Append(idxs, j)
              IN IF (includeAces /\ Len(sr) = 13) \/ (~includeAces /\ Len(sr) = 12)
                   THEN IF ~includeAces
                             /\ ~( (\A k \in 1..Len(sr) : sr[k] >= 2)
                                   /\ (\E k \in 1..Len(sr) : sr[k] = 2)
                                   /\ (\A k \in 1..Len(sr) : sr[k] <= 13)
                                   /\ (\E k \in 1..Len(sr) : sr[k] = 13) )
                          THEN <<>>
                        ELSE ix
                 ELSE scanDown(h, col, j - 1, suit, sr, ix, includeAces)
       ELSE <<>>

\* the outer loop over i, from the top of the column downwards
RECURSIVE scanStarts(_, _, _, _)
scanStarts(h, col, i, includeAces) ==
  IF i < 1 THEN <<>>
  ELSE IF ~h[col[i]].faceUp THEN scanStarts(h, col, i - 1, includeAces)
  ELSE LET found == scanDown(h, col, i - 1, h[col[i]].suit,
                             <<h[col[i]].rank>>, <<i>>, includeAces)
       IN IF found # <<>> THEN found
          ELSE scanStarts(h, col, i - 1, includeAces)

\* tryComplete: [removed, rest]; removed = <<>> stands for the null result.
\* removed lists the spliced cards from the highest index down.
tryComplete(h, col, includeAces) ==
  LET minRank == IF includeAces THEN 1 ELSE 2
      expectedLength == 14 - minRank
      idxs == IF Len(col) < expectedLength THEN <<>>
              ELSE scanStarts(h, col, Len(col), includeAces)
  IN [removed |-> [k \in 1..Len(idxs) |-> col[idxs[k]]],
      rest |-> SelectSeq([k \in 1..Len(col) |->
                            IF k \in Range(idxs) THEN Null ELSE col[k]],
                         LAMBDA a : a # Null)]

removeFromFoundations(h, fc, removedCards) ==
  LET ids == {h[removedCards[i]].id : i \in 1..Len(removedCards)}
  IN SelectSeq(fc, LAMBDA a : h[a].id \notin ids)

\* completeTopRun without lines 161-162: the card uncovered stays as it was
completeTopRunNoTurn(G, colIndex) ==
  LET st == G.state
      tc == tryComplete(G.cards, st.tableau[colIndex], st.includeAces)
  IN IF tc.removed = <<>> THEN G
     ELSE [G EXCEPT
             !.state.tableau[colIndex] = tc.rest,
             !.state.foundationsCards = @ \o tc.removed,
             !.state.foundations = @ + 1,
             !.state.history = Append(@, [t |-> "complete", col |-> colIndex,
                                          cards |-> tc.removed, turned |-> Null]),
             !.state.score = @ + CompleteBonus]

\* completeTopRun without line 170: the score is left as it was
completeTopRunNoBonus(G, colIndex) ==
  LET st == G.state
      tc == tryComplete(G.cards, st.tableau[colIndex], st.includeAces)
      rem == tc.removed
      col == tc.rest
      flips == Len(col) > 0 /\ ~G.cards[top(col)].faceUp
      turned == IF flips THEN top(col) ELSE Null
  IN IF rem = <<>> THEN G
     ELSE [G EXCEPT
             !.cards = IF flips THEN [@ EXCEPT ![turned].faceUp = TRUE] ELSE @,
             !.state.tableau[colIndex] = col,
             !.state.foundationsCards = @ \o rem,
             !.state.foundations = @ + 1,
             !.state.history = Append(@, [t |-> "complete", col |-> colIndex,
                                          cards |-> rem, turned |-> turned])]

completeTopRun(G, colIndex) ==
  LET st == G.state
      tc == tryComplete(G.cards, st.tableau[colIndex], st.includeAces)
      rem == tc.removed
      col == tc.rest
      flips == Len(col) > 0 /\ ~G.cards[top(col)].faceUp
      turned == IF flips THEN top(col) ELSE Null
  IN IF rem = <<>> THEN G
     ELSE [G EXCEPT
             !.cards = IF flips THEN [@ EXCEPT ![turned].faceUp = TRUE] ELSE @,
             !.state.tableau[colIndex] = col,
             !.state.foundationsCards = @ \o rem,
             !.state.foundations = @ + 1,
             !.state.history = Append(@, [t |-> "complete", col |-> colIndex,
                                          cards |-> rem, turned |-> turned]),
             !.state.score = @ + CompleteBonus]

\* x|0 on an integer: the value taken to 32 bits, signed.  moves and score
\* are whole numbers that change by 1 and by 100 a call: they stay within
\* 32 bits, where x|0 is x
ToInt32(x) == x

\* serializeGameState: the snapshot object; {...c} copies the four fields of
\* a card, so the piles of the snapshot are sequences of card records
serializeGameState(G) ==
  LET copy(pile) == [i \in 1..Len(pile) |-> G.cards[pile[i]]]
  IN [seed |-> G.state.seed,
      difficulty |-> G.state.difficulty,
      moves |-> ToInt32(G.state.moves),
      score |-> ToInt32(G.state.score),
      stock |-> copy(G.state.stock),
      tableaus |-> [c \in Cols |-> copy(G.state.tableau[c])],
      foundations |-> copy(G.state.foundationsCards),
      waste |-> <<>>]

\* ---- History wiring helpers ----
\* recordMoveForHistory without line 198: the flag is never set and every
\* call goes to GameHistory.onFirstMove
recordMoveAlwaysFirst(G) ==
  [G EXCEPT !.state.running = TRUE,
            !.sent = Append(@, [fn |-> "onFirstMove",
                                payload |-> [seed |-> G.state.seed,
                                             difficulty |-> G.state.difficulty,
                                             snapshot |-> serializeGameState(G),
                                             moves |-> G.state.moves,
                                             score |-> G.state.score]])]

\* recordMoveForHistory is reached with window.GameHistory installed: the
\* payload goes to GameHistory.onFirstMove for the first call after newGame
\* and to GameHistory.onMove afterwards
recordMoveForHistory(G) ==
  LET payload == [seed |-> G.state.seed, difficulty |-> G.state.difficulty,
                  snapshot |-> serializeGameState(G),
                  moves |-> G.state.moves, score |-> G.state.score]
  IN IF ~G.firstMoveLogged
       THEN [G EXCEPT !.firstMoveLogged = TRUE, !.state.running = TRUE,
                      !.sent = Append(@, [fn |-> "onFirstMove", payload |-> payload])]
     ELSE [G EXCEPT !.sent = Append(@, [fn |-> "onMove", payload |-> payload])]

\* recordWinForHistory: the payload of GameHistory.onWin has no seed and no
\* difficulty
recordWinForHistory(G) ==
  [G EXCEPT !.sent = Append(@, [fn |-> "onWin",
                                payload |-> [snapshot |-> serializeGameState(G),
                                             moves |-> G.state.moves,
                                             score |-> G.state.score]])]

checkWin(G) ==
  IF G.state.foundations = WinCount
    THEN recordWinForHistory([G EXCEPT !.state.won = TRUE, !.state.running = FALSE])
  ELSE G

\* completeTopRun for c = from, from+1, ..., 9
RECURSIVE completeAllFrom(_, _)
completeAllFrom(G, c) ==
  IF c >= NumCols THEN G
  ELSE IF tryComplete(G.cards, G.state.tableau[c], G.state.includeAces).removed = <<>>
    THEN completeAllFrom(G, c + 1)
  ELSE completeAllFrom(completeTopRun(G, c), c + 1)

\* dealLoop with pop in place of shift: the cards come off the far end of
\* the stock
RECURSIVE dealLoopFromEnd(_, _, _, _)
dealLoopFromEnd(G, c, cardsToDeal, dealt) ==
  IF c >= cardsToDeal THEN [G |-> G, dealt |-> dealt]
  ELSE IF G.state.stock = <<>> THEN dealLoopFromEnd(G, c + 1, cardsToDeal, dealt)
  ELSE LET card == G.state.stock[Len(G.state.stock)]
       IN dealLoopFromEnd([G EXCEPT !.state.stock = SubSeq(@, 1, Len(@) - 1),
                                    !.cards[card].faceUp = TRUE,
                                    !.state.tableau[c] = Append(@, card)],
                          c + 1, cardsToDeal, Append(dealt, card))

\* the loop `for (c = 0; c < cardsToDeal; c++)`: shift a card off the stock
\* onto column c; dealt collects the shifted cards
RECURSIVE dealLoop(_, _, _, _)
dealLoop(G, c, cardsToDeal, dealt) ==
  IF c >= cardsToDeal THEN [G |-> G, dealt |-> dealt]
  ELSE IF G.state.stock = <<>> THEN dealLoop(G, c + 1, cardsToDeal, dealt)
  ELSE LET card == Head(G.state.stock)
       IN dealLoop([G EXCEPT !.state.stock = Tail(@),
                             !.cards[card].faceUp = TRUE,
                             !.state.tableau[c] = Append(@, card)],
                   c + 1, cardsToDeal, Append(dealt, card))

\* the final-deal loop `for (c = 0; c < state.stock.length; c++)`, whose bound
\* is read again after every shift
RECURSIVE finalDealLoop(_, _, _)
finalDealLoop(G, c, dealt) ==
  IF c >= Len(G.state.stock) THEN [G |-> G, dealt |-> dealt]
  ELSE LET card == Head(G.state.stock)
       IN finalDealLoop([G EXCEPT !.state.stock = Tail(@),
                                  !.cards[card].faceUp = TRUE,
                                  !.state.tableau[c] = Append(@, card)],
                        c + 1, Append(dealt, card))

\* dealRow past its two guards: the deal, the history entry, the counters and
\* the completions
\* dealCards without line 274: the redo stack is kept
dealCardsKeepRedo(G) ==
  LET st == G.state
      cardsToDeal == Min(Len(st.stock), NumCols)
      isFinalDeal == st.dealsRemaining = 1 /\ Len(st.stock) > 0 /\ Len(st.stock) < NumCols
      loop == IF isFinalDeal THEN finalDealLoop(G, 0, <<>>)
              ELSE dealLoop(G, 0, cardsToDeal, <<>>)
      G1 == [loop.G EXCEPT
               !.state.dealsRemaining =
                  IF isFinalDeal THEN 0
                  ELSE IF cardsToDeal = NumCols THEN @ - 1 ELSE @,
               !.state.history = Append(@, [t |-> "deal", dealt |-> loop.dealt]),
               !.state.moves = @ + 1,
               !.state.score = Max(0, @ - 1)]
      G2 == recordMoveForHistory(G1)
      G3 == completeAllFrom(G2, 0)
  IN [G |-> Collect(G3), changed |-> TRUE, ret |-> "true", msg |-> ""]

dealCards(G) ==
  LET st == G.state
      cardsToDeal == Min(Len(st.stock), NumCols)
      isFinalDeal == st.dealsRemaining = 1 /\ Len(st.stock) > 0 /\ Len(st.stock) < NumCols
      loop == IF isFinalDeal THEN finalDealLoop(G, 0, <<>>)
              ELSE dealLoop(G, 0, cardsToDeal, <<>>)
      G1 == [loop.G EXCEPT
               !.state.dealsRemaining =
                  IF isFinalDeal THEN 0
                  ELSE IF cardsToDeal = NumCols THEN @ - 1 ELSE @,
               !.state.history = Append(@, [t |-> "deal", dealt |-> loop.dealt]),
               !.state.redo = <<>>,
               !.state.moves = @ + 1,
               !.state.score = Max(0, @ - 1)]
      G2 == recordMoveForHistory(G1)
      G3 == completeAllFrom(G2, 0)
  IN [G |-> Collect(G3), changed |-> TRUE, ret |-> "true", msg |-> ""]

\* dealRow without the loop over the columns that looks for an empty one
dealRowAnyColumns(G) ==
  IF G.state.dealsRemaining <= 0 /\ Len(G.state.stock) > 0
    THEN [G |-> G, changed |-> FALSE, ret |-> "false", msg |-> "No deals left"]
  ELSE dealCards(G)

dealRow(G) ==
  LET st == G.state
  IN IF st.dealsRemaining <= 0 /\ Len(st.stock) > 0
       THEN [G |-> G, changed |-> FALSE, ret |-> "false", msg |-> "No deals left"]
     ELSE IF \E c \in Cols : Len(st.tableau[c]) = 0
       THEN [G |-> G, changed |-> FALSE, ret |-> "false",
             msg |-> "Fill empty columns before dealing"]
     ELSE dealCards(G)

\* the address structuredClone gives the copy of a card made by the move
\* that brings state.moves to m
CloneOf(h, a, m) == NumIds * m + h[a].id

\* the check of doMove's loop: positions startIndex+1 .. n-1 (0-based) against
\* the card below each
IsTail(h, src, startIndex) ==
  \A i \in (startIndex + 1)..(Len(src) - 1) :
    LET a == h[src[i + 1]]
        b == h[src[i]]
    IN a.faceUp /\ b.faceUp /\ a.rank + 1 = b.rank /\ a.suit = b.suit

\* doMove, the checks made before anything is changed: the value returned
\* and the message flashed when the call is turned down
moveCheck(G, from, startIndex, to) ==
  LET src == G.state.tableau[from]
      dst == G.state.tableau[to]
      n == Len(src)
  IN IF from = to THEN [ret |-> "false", msg |-> ""]
     ELSE IF startIndex < 0 \/ startIndex >= n THEN [ret |-> "false", msg |-> ""]
     ELSE IF ~IsTail(G.cards, src, startIndex)
       THEN [ret |-> "false", msg |-> "Select a same-suit descending tail"]
     ELSE IF ~canDrop(G.cards, src[startIndex + 1], top(dst))
       THEN [ret |-> "false", msg |-> "Illegal move"]
     ELSE [ret |-> "true", msg |-> ""]

\* src.slice(startIndex + 1): the tail without its head
sliceAbove(src, startIndex) == SubSeq(src, startIndex + 2, Len(src))

\* src.slice(startIndex)
slice(src, startIndex) == SubSeq(src, startIndex + 1, Len(src))

\* doMove, the part that carries the move out
moveCards(G, from, startIndex, to) ==
  LET st == G.state
      src == st.tableau[from]
      dst == st.tableau[to]
      n == Len(src)
      moved == slice(src, startIndex)
      newSrc == SubSeq(src, 1, startIndex)
      flips == Len(newSrc) > 0 /\ ~G.cards[top(newSrc)].faceUp
      turned == IF flips THEN top(newSrc) ELSE Null
      flipped == IF flips THEN [G.cards EXCEPT ![turned].faceUp = TRUE] ELSE G.cards
      m == st.moves + 1
      clones == [i \in 1..Len(moved) |-> CloneOf(flipped, moved[i], m)]
      store == [a \in DOMAIN flipped \cup Range(clones) |->
                  IF a \in Range(clones)
                    THEN flipped[moved[CHOOSE i \in 1..Len(moved) : clones[i] = a]]
                  ELSE flipped[a]]
      G1 == [G EXCEPT
               !.cards = store,
               !.state.tableau[to] = dst \o moved,
               !.state.tableau[from] = newSrc,
               !.state.history = Append(@, [t |-> "move", from |-> from, to |-> to,
                                            moved |-> clones, turned |-> turned]),
               !.state.redo = <<>>,
               !.state.moves = m,
               !.state.score = Max(0, @ - 1)]
      G2 == recordMoveForHistory(G1)
      G3 == completeTopRun(G2, to)
      G4 == completeTopRun(G3, from)
      G5 == checkWin(G4)
  IN Collect(G5)

\* doMove with the drop test made after the cards were moved
doMoveDropTestLate(G, from, startIndex, to) ==
  LET chk == moveCheck(G, from, startIndex, to)
  IN IF chk.ret = "false" /\ chk.msg # "Illegal move"
       THEN [G |-> G, changed |-> FALSE, ret |-> chk.ret, msg |-> chk.msg]
     ELSE [G |-> moveCards(G, from, startIndex, to), changed |-> TRUE,
           ret |-> chk.ret, msg |-> chk.msg]

doMove(G, from, startIndex, to) ==
  LET chk == moveCheck(G, from, startIndex, to)
  IN IF chk.ret = "false"
       THEN [G |-> G, changed |-> FALSE, ret |-> chk.ret, msg |-> chk.msg]
     ELSE [G |-> moveCards(G, from, startIndex, to), changed |-> TRUE,
           ret |-> chk.ret, msg |-> chk.msg]

\* sets faceUp of the first card of col whose id is that of h.turned
SetTurned(h, col, turned, value) ==
  IF turned = Null THEN h
  ELSE LET idx == FindIndexById(h, col, h[turned].id)
       IN IF idx >= 1 THEN [h EXCEPT ![col[idx]].faceUp = value] ELSE h

\* undo, deal branch: `for (i = 9; i >= 0; i--)` pops a card off column i and
\* unshifts it onto the stock; popping an empty column yields undefined and
\* the assignment card.faceUp = false throws
RECURSIVE undoDealLoop(_, _)
undoDealLoop(G, i) ==
  IF i < 0 THEN [G |-> G, thrown |-> FALSE]
  ELSE LET col == G.state.tableau[i]
       IN IF Len(col) = 0 THEN [G |-> G, thrown |-> TRUE]
          ELSE LET card == top(col)
               IN undoDealLoop([G EXCEPT !.state.tableau[i] = SubSeq(col, 1, Len(col) - 1),
                                         !.cards[card].faceUp = FALSE,
                                         !.state.stock = <<card>> \o @],
                               i - 1)

\* redo, deal branch: `for (c = 0; c < 10; c++)` shifts a card off the stock;
\* an empty stock yields undefined and card.faceUp = true throws
RECURSIVE redoDealLoop(_, _)
redoDealLoop(G, c) ==
  IF c >= NumCols THEN [G |-> G, thrown |-> FALSE]
  ELSE IF G.state.stock = <<>> THEN [G |-> G, thrown |-> TRUE]
  ELSE LET card == Head(G.state.stock)
       IN redoDealLoop([G EXCEPT !.state.stock = Tail(@),
                                 !.cards[card].faceUp = TRUE,
                                 !.state.tableau[c] = Append(@, card)],
                       c + 1)

\* undo with the test of line 328 after the counting of line 361: a call on
\* an empty history is counted as a move
undoCountsCall(G) ==
  LET st == G.state
      h == st.history[Len(st.history)]
      P == [G EXCEPT !.state.history = SubSeq(@, 1, Len(@) - 1)]
      \* complete
      colC == st.tableau[h.col] \o h.cards
      GC == [P EXCEPT
               !.state.tableau[h.col] = colC,
               !.cards = SetTurned(@, colC, h.turned, FALSE),
               !.state.foundationsCards = removeFromFoundations(G.cards, @, h.cards),
               !.state.foundations = @ - 1,
               !.state.score = @ - CompleteBonus,
               !.state.redo = Append(@, h)]
      \* move
      k == Len(h.moved)
      colTo == Splice(st.tableau[h.to], Len(st.tableau[h.to]) - k, k)
      colFrom == st.tableau[h.from] \o h.moved
      GM == [P EXCEPT
               !.state.tableau[h.to] = colTo,
               !.state.tableau[h.from] = colFrom,
               !.cards = SetTurned(@, colFrom, h.turned, FALSE),
               !.state.redo = Append(@, h)]
      \* deal
      loop == undoDealLoop(P, NumCols - 1)
      GD == [loop.G EXCEPT !.state.dealsRemaining = @ + 1,
                           !.state.redo = Append(@, h)]
      done == IF h.t = "complete" THEN GC ELSE IF h.t = "move" THEN GM ELSE GD
      counted == recordMoveForHistory([done EXCEPT !.state.moves = @ + 1])
  IN IF st.history = <<>>
       THEN [G |-> [G EXCEPT !.state.moves = @ + 1], changed |-> TRUE,
             ret |-> "undefined", msg |-> ""]
     ELSE IF h.t = "deal" /\ loop.thrown
       THEN [G |-> Collect(loop.G), changed |-> TRUE, ret |-> "TypeError", msg |-> ""]
     ELSE [G |-> Collect(counted), changed |-> TRUE, ret |-> "undefined", msg |-> ""]

undo(G) ==
  LET st == G.state
      h == st.history[Len(st.history)]
      P == [G EXCEPT !.state.history = SubSeq(@, 1, Len(@) - 1)]
      \* complete
      colC == st.tableau[h.col] \o h.cards
      GC == [P EXCEPT
               !.state.tableau[h.col] = colC,
               !.cards = SetTurned(@, colC, h.turned, FALSE),
               !.state.foundationsCards = removeFromFoundations(G.cards, @, h.cards),
               !.state.foundations = @ - 1,
               !.state.score = @ - CompleteBonus,
               !.state.redo = Append(@, h)]
      \* move
      k == Len(h.moved)
      colTo == Splice(st.tableau[h.to], Len(st.tableau[h.to]) - k, k)
      colFrom == st.tableau[h.from] \o h.moved
      GM == [P EXCEPT
               !.state.tableau[h.to] = colTo,
               !.state.tableau[h.from] = colFrom,
               !.cards = SetTurned(@, colFrom, h.turned, FALSE),
               !.state.redo = Append(@, h)]
      \* deal
      loop == undoDealLoop(P, NumCols - 1)
      GD == [loop.G EXCEPT !.state.dealsRemaining = @ + 1,
                           !.state.redo = Append(@, h)]
      done == IF h.t = "complete" THEN GC ELSE IF h.t = "move" THEN GM ELSE GD
      counted == recordMoveForHistory([done EXCEPT !.state.moves = @ + 1])
  IN IF st.history = <<>>
       THEN [G |-> G, changed |-> FALSE, ret |-> "undefined", msg |-> ""]
     ELSE IF h.t = "deal" /\ loop.thrown
       THEN [G |-> Collect(loop.G), changed |-> TRUE, ret |-> "TypeError", msg |-> ""]
     ELSE [G |-> Collect(counted), changed |-> TRUE, ret |-> "undefined", msg |-> ""]

redo(G) ==
  LET st == G.state
      h == st.redo[Len(st.redo)]
      P == [G EXCEPT !.state.redo = SubSeq(@, 1, Len(@) - 1)]
      \* complete
      colC == Splice(st.tableau[h.col], Len(st.tableau[h.col]) - RedoSpliceCount,
                     RedoSpliceCount)
      GC == [P EXCEPT
               !.state.tableau[h.col] = colC,
               !.cards = SetTurned(@, colC, h.turned, TRUE),
               !.state.foundationsCards = @ \o h.cards,
               !.state.foundations = @ + 1,
               !.state.score = @ + CompleteBonus,
               !.state.history = Append(@, h)]
      \* move
      k == Len(h.moved)
      colFrom == Splice(st.tableau[h.from], Len(st.tableau[h.from]) - k, k)
      GM == [P EXCEPT
               !.state.tableau[h.from] = colFrom,
               !.state.tableau[h.to] = @ \o h.moved,
               !.cards = SetTurned(@, colFrom, h.turned, TRUE),
               !.state.history = Append(@, h)]
      \* deal
      loop == redoDealLoop(P, 0)
      GD == [loop.G EXCEPT !.state.dealsRemaining = @ - 1,
                           !.state.history = Append(@, h)]
      done == IF h.t = "complete" THEN GC ELSE IF h.t = "move" THEN GM ELSE GD
      counted == recordMoveForHistory([done EXCEPT !.state.moves = @ + 1])
  IN IF st.redo = <<>>
       THEN [G |-> G, changed |-> FALSE, ret |-> "undefined", msg |-> ""]
     ELSE IF h.t = "deal" /\ loop.thrown
       THEN [G |-> Collect(loop.G), changed |-> TRUE, ret |-> "TypeError", msg |-> ""]
     ELSE [G |-> Collect(counted), changed |-> TRUE, ret |-> "undefined", msg |-> ""]

\* window.Game.loadSnapshot(snap) with no meta argument.  cloneCard makes a
\* new object for every card of the snapshot: the objects are addressed by
\* their place in the row of all piles (columns 0..9, stock, foundations);
\* includeAces and __firstMoveLogged__ are not written
loadSnapshot(G, snap) ==
  LET piles == [c \in 1..NumCols |-> snap.tableaus[c - 1]]
                 \o <<snap.stock, snap.foundations>>
      RECURSIVE Before(_)
      Before(k) == IF k <= 1 THEN 0 ELSE Before(k - 1) + Len(piles[k - 1])
      addrs(k) == [i \in 1..Len(piles[k]) |-> Before(k) + i]
      total == Before(Len(piles) + 1)
      store == [a \in 1..total |->
                  LET k == CHOOSE k \in 1..Len(piles) :
                             a > Before(k) /\ a <= Before(k) + Len(piles[k])
                  IN piles[k][a - Before(k)]]
      fc == addrs(NumCols + 2)
      stock == addrs(NumCols + 1)
  IN [state |-> [G.state EXCEPT
                   !.difficulty = canonDiffLabel(snap.difficulty),
                   !.seed = snap.seed,
                   !.moves = ToInt32(snap.moves),
                   !.score = ToInt32(snap.score),
                   !.tableau = [c \in Cols |-> addrs(c + 1)],
                   !.stock = stock,
                   !.foundationsCards = fc,
                   !.foundations = Len(fc) \div 13,
                   !.dealsRemaining =
                      Max(0, StartDeals - ((StockSize - Len(stock)) \div NumCols)),
                   !.won = FALSE, !.history = <<>>, !.redo = <<>>,
                   !.running = G.firstMoveLogged],
      cards |-> store, firstMoveLogged |-> G.firstMoveLogged, sent |-> G.sent]

\* the comparator without its second term: b.score - a.score
hintOrderByScore(a, b) == b.score - a.score

\* the comparator of line 462: b.score - a.score || a.cardCount - b.cardCount
hintOrder(a, b) ==
  IF b.score - a.score # 0 THEN b.score - a.score ELSE a.cardCount - b.cardCount

\* hints.sort(cmp) with the comparator of line 462, which orders the hints
\* consistently: the sort is stable, so element i comes after exactly the
\* elements that compare lower, and those that compare equal and stand
\* before it
sort(arr) ==
  LET before(j, i) == hintOrder(arr[j], arr[i]) < 0
                        \/ (hintOrder(arr[j], arr[i]) = 0 /\ j < i)
      place(i) == 1 + Cardinality({j \in 1..Len(arr) : before(j, i)})
  IN [p \in 1..Len(arr) |-> arr[CHOOSE i \in 1..Len(arr) : place(i) = p]]

\* computeHint, the loops over from and start: the pairs whose tail passes
\* the checks of lines 438-446, in loop order (start is 0-based)
hintTails(G) ==
  LET h == G.cards
      longest == CHOOSE n \in {Len(G.state.tableau[c]) : c \in Cols} :
                   \A c \in Cols : Len(G.state.tableau[c]) <= n
      pairs == [k \in 1..(NumCols * longest) |->
                  [from |-> (k - 1) \div longest, start |-> (k - 1) % longest]]
  IN SelectSeq(pairs, LAMBDA p :
       LET col == G.state.tableau[p.from]
       IN /\ Len(col) > 0
          /\ h[top(col)].faceUp
          /\ p.start < Len(col)
          /\ h[col[p.start + 1]].faceUp
          /\ IsTail(h, col, p.start))

\* the hint pushed for (from, start, to) at lines 452-457
hintFor(G, from, start, to) ==
  LET h == G.cards
      col == G.state.tableau[from]
      head == h[col[start + 1]]
      dest == G.state.tableau[to]
      destTop == top(dest)
      reveals == start > 0 /\ ~h[col[start]].faceUp
      builds == destTop # Null /\ h[destTop].suit = head.suit
                  /\ h[destTop].rank = head.rank + 1
      empties == Len(col) = start + 1 /\ Len(dest) = 0
      reasons == (IF reveals THEN <<"Reveals a hidden card">> ELSE <<>>)
                   \o (IF builds THEN <<"Builds same-suit sequence">> ELSE <<>>)
                   \o (IF empties THEN <<"Creates an empty column">> ELSE <<>>)
  IN [from |-> from, start |-> start, to |-> to,
      score |-> (IF reveals THEN 3 ELSE 0) + (IF builds THEN 2 ELSE 0)
                  + (IF empties THEN 2 ELSE 0),
      cardCount |-> Len(col) - start,
      reasons |-> IF reasons # <<>> THEN reasons ELSE <<"Basic move">>,
      headRank |-> head.rank, headSuit |-> head.suit]

\* a hint computation that turns every card face-up to look under the runs and
\* leaves it so
computeHintPeeking(G) ==
  [G |-> [G EXCEPT !.cards = [a \in DOMAIN G.cards |->
                                 [G.cards[a] EXCEPT !.faceUp = TRUE]]],
   hints |-> <<>>]

\* computeHint: the hints in loop order, then sorted.  G is the engine after
\* the call: nothing of it is written
computeHint(G) ==
  LET h == G.cards
      tails == hintTails(G)
      all == [k \in 1..(Len(tails) * NumCols) |->
                [from |-> tails[((k - 1) \div NumCols) + 1].from,
                 start |-> tails[((k - 1) \div NumCols) + 1].start,
                 to |-> (k - 1) % NumCols]]
      dropped == SelectSeq(all, LAMBDA t :
                   /\ t.to # t.from
                   /\ canDrop(h, G.state.tableau[t.from][t.start + 1],
                              top(G.state.tableau[t.to])))
      hints == [k \in 1..Len(dropped) |->
                  hintFor(G, dropped[k].from, dropped[k].start, dropped[k].to)]
  IN [G |-> G, hints |-> sort(hints)]

\* verifyInventory (validation.js).  The cards are placed column by column,
\* then the stock, then the foundations list; the result holds ok, the
\* duplicate ids in the order met, the counts and the kinds of issue found.
\* G is the engine after the call: nothing of it is written
verifyInventory(G) ==
  LET st == G.state
      h == G.cards
      t == st.tableau
      inColumns == t[0] \o t[1] \o t[2] \o t[3] \o t[4] \o t[5] \o t[6] \o t[7]
                     \o t[8] \o t[9]
      placed == inColumns \o st.stock \o st.foundationsCards
      duplicates == SelectSeq([i \in 1..Len(placed) |-> i], LAMBDA i :
                      \E j \in 1..(i - 1) : h[placed[j]].id = h[placed[i]].id)
      counts == [total |-> Len(placed), tableau |-> Len(inColumns),
                 stock |-> Len(st.stock), foundations |-> Len(st.foundationsCards)]
      suitCount(s) == Cardinality({i \in 1..Len(placed) : h[placed[i]].suit = s})
      rankCount(r) == Cardinality({i \in 1..Len(placed) : h[placed[i]].rank = r})
      suitKeys == {h[placed[i]].suit : i \in 1..Len(placed)}
      expectedTotal == IF st.includeAces THEN 104 ELSE 96
      runLen == IF st.includeAces THEN 13 ELSE 12
      suitsWanted == IF st.difficulty = "1-suit" THEN 1
                     ELSE IF st.difficulty = "2-suit" THEN 2 ELSE 4
      perSuit == (8 \div suitsWanted) * runLen
      issues ==
        (IF counts.total # expectedTotal THEN {"total"} ELSE {})
          \cup (IF duplicates # <<>> THEN {"duplicates"} ELSE {})
          \cup (IF Cardinality(suitKeys) # suitsWanted
                     \/ \E s \in suitKeys : suitCount(s) # perSuit
                  THEN {"suits"} ELSE {})
          \cup (IF \E r \in 2..13 : rankCount(r) # 8 THEN {"ranks"} ELSE {})
          \cup (IF rankCount(1) # (IF st.includeAces THEN 8 ELSE 0)
                  THEN {"aces"} ELSE {})
          \cup (IF st.dealsRemaining # (counts.stock + 9) \div 10
                  THEN {"dealsRemaining"} ELSE {})
          \cup (IF counts.foundations # st.foundations * runLen
                  THEN {"foundations"} ELSE {})
          \cup (IF \E c \in Cols : Len(t[c]) > 0 /\ ~h[top(t[c])].faceUp
                  THEN {"tops"} ELSE {})
  IN [G |-> G, ok |-> issues = {},
      duplicates |-> [k \in 1..Len(duplicates) |-> h[placed[duplicates[k]]].id],
      missing |-> <<>>, counts |-> counts, expectedTotal |-> expectedTotal,
      includeAces |-> st.includeAces, issues |-> issues]

\* the engine as a call finds it: state, object store and
\* window.__firstMoveLogged__; sent collects the calls the handler makes to
\* window.GameHistory and is empty when the handler starts
World == [state |-> state, cards |-> cards, firstMoveLogged |-> firstMoveLogged,
          sent |-> <<>>]

Becomes(G) ==
  /\ state' = G.state
  /\ cards' = G.cards
  /\ firstMoveLogged' = G.firstMoveLogged
  /\ sent' = G.sent

\* the engine as the module leaves it when loaded
Loaded == [state |-> InitialState, cards |-> [a \in {} |-> Null],
           firstMoveLogged |-> FALSE, sent |-> <<>>]

\* k calls of dealRow in a row
RECURSIVE dealRows(_, _)
dealRows(G, k) ==
  IF k = 0 THEN G ELSE dealRows(dealRow([G EXCEPT !.sent = <<>>]).G, k - 1)

\* the positions a behaviour starts from: the loaded module, and each game
\* after newGame and the dealRow calls that lay its runs open
Starts ==
  {[game |-> <<"2", "s1", FALSE>>, deals |-> 3],
   [game |-> <<"4-suit", "s1", FALSE>>, deals |-> 0],
   [game |-> <<"1", "s2", TRUE>>, deals |-> 3],
   [game |-> <<"1", "s3", TRUE>>, deals |-> 3]}

StartWorlds ==
  {[G |-> Loaded, op |-> "none"]} \cup
  {[G |-> dealRows(newGame(Loaded, s.game[1], s.game[2], s.game[3]), s.deals),
    op |-> IF s.deals = 0 THEN "newGame" ELSE "dealRow"] : s \in Starts}

Init ==
  \E s \in StartWorlds :
    /\ state = s.G.state
    /\ cards = s.G.cards
    /\ firstMoveLogged = s.G.firstMoveLogged
    /\ sent = s.G.sent
    /\ lastCall = [op |-> s.op, ret |-> IF s.op = "dealRow" THEN "true" ELSE "undefined",
                   msg |-> ""]
    /\ calls = 0

NewGame ==
  \E g \in Games :
    /\ calls < MaxCalls
    /\ Becomes(newGame(World, g[1], g[2], g[3]))
    /\ lastCall' = [op |-> "newGame", ret |-> "undefined", msg |-> ""]
    /\ calls' = calls + 1

\* a call that changes the engine state is explored only while the number of
\* such calls is below the bound; a call that changes nothing is always taken
Counted(r) ==
  /\ r.changed => calls < MaxCalls
  /\ calls' = IF r.changed THEN calls + 1 ELSE calls

\* the arguments doMove is called with: any two columns, and a start index
\* from one below the first card to one past the last
MovePairs ==
  UNION {{<<from, startIndex>> : startIndex \in (0 - 1)..Len(state.tableau[from])} :
         from \in Cols}

MoveArgs == UNION {{<<p[1], p[2], to>> : to \in Cols} : p \in MovePairs}

\* the (from, startIndex) pairs of G that pass doMove's tail loop
Tails(G) ==
  {p \in MovePairs : /\ p[2] >= 0
                     /\ p[2] < Len(G.state.tableau[p[1]])
                     /\ IsTail(G.cards, G.state.tableau[p[1]], p[2])}

\* the calls explored: a tail with every destination, any other pair with
\* the column to its right (what doMove answers to a pair that is no tail
\* does not depend on the destination unless it is the source itself; a
\* tail with from = to covers that answer)
Probes(G) ==
  {<<p[1], p[2], to>> : p \in Tails(G), to \in Cols}
    \cup {<<p[1], p[2], (p[1] + 1) % NumCols>> : p \in MovePairs \ Tails(G)}

\* one call of an engine function: its result r becomes the state
Call(op, r) ==
  /\ Counted(r)
  /\ Becomes(r.G)
  /\ lastCall' = [op |-> op, ret |-> r.ret, msg |-> r.msg]

\* doMove.  The calls it turns down leave one successor per message: they
\* are explored through one triple each.
DoMove ==
  \E G \in {World} :
    \E checks \in {{<<a, moveCheck(G, a[1], a[2], a[3])>> : a \in Probes(G)}} :
      \/ \E c \in {x \in checks : x[2].ret = "true"} :
           \E r \in {doMove(G, c[1][1], c[1][2], c[1][3])} : Call("doMove", r)
      \/ \E m \in {x[2].msg : x \in {y \in checks : y[2].ret = "false"}} :
           \E c \in {CHOOSE x \in checks : x[2].ret = "false" /\ x[2].msg = m} :
             \E r \in {doMove(G, c[1][1], c[1][2], c[1][3])} : Call("doMove", r)

DealRow ==
  \E r \in {dealRow(World)} : Call("dealRow", r)

Undo ==
  \E r \in {undo(World)} : Call("undo", r)

Redo ==
  \E r \in {redo(World)} : Call("redo", r)

Next == NewGame \/ DoMove \/ DealRow \/ Undo \/ Redo

Spec == Init /\ [][Next]_vars

\* ---- a game played to the end of its stock ----
\* The calls that lead there are replayed one by one: from the game with
\* aces after three deals, the two moves that build the run, the two deals
\* left, then dealRow six more times on the empty stock and undo six times.
\* After the script every call is explored, for LateCalls calls.
LateCalls == 2

Script ==
  <<[op |-> "doMove", a |-> <<1, 5, 0>>], [op |-> "doMove", a |-> <<2, 5, 0>>]>>
    \o [i \in 1..8 |-> [op |-> "dealRow", a |-> <<>>]]
    \o [i \in 1..6 |-> [op |-> "undo", a |-> <<>>]]

\* calls counts up to MaxCalls; the script ends LateCalls before it
ScriptEnd == MaxCalls - LateCalls

InitLate ==
  \E G \in {dealRows(newGame(Loaded, "1", "s2", TRUE), 3)} :
    /\ state = G.state
    /\ cards = G.cards
    /\ firstMoveLogged = G.firstMoveLogged
    /\ sent = G.sent
    /\ lastCall = [op |-> "dealRow", ret |-> "true", msg |-> ""]
    /\ calls = ScriptEnd - Len(Script)

\* the call a script step stands for
Step(G, s) ==
  IF s.op = "doMove" THEN doMove(G, s.a[1], s.a[2], s.a[3])
  ELSE IF s.op = "dealRow" THEN dealRow(G)
  ELSE IF s.op = "undo" THEN undo(G)
  ELSE redo(G)

\* the next call of a script, while the script lasts
Replayed(script) ==
  /\ calls < ScriptEnd
  /\ \E s \in {script[calls - ScriptEnd + Len(script) + 1]} :
       \E r \in {Step(World, s)} :
         /\ Becomes(r.G)
         /\ lastCall' = [op |-> s.op, ret |-> r.ret, msg |-> r.msg]
         /\ calls' = calls + 1

Replay == Replayed(Script)

NextLate == Replay \/ (calls >= ScriptEnd /\ Next)

SpecLate == InitLate /\ [][NextLate]_vars

\* ---- a game without aces played to eight completed runs ----
\* Column 9 is built to K..2 by eleven moves of one card; undo and redo of
\* the completion, four times over, take the three cards under the run and
\* then its King; from there a deal lays a King under the run or a move lays
\* a 2 on it, with one undo and redo in between.
Moves(from, first, last, to) ==
  [i \in 1..(first - last + 1) |-> [op |-> "doMove", a |-> <<from, first + 1 - i, to>>]]

UndoRedo == <<[op |-> "undo", a |-> <<>>], [op |-> "redo", a |-> <<>>]>>

Deal == <<[op |-> "dealRow", a |-> <<>>]>>

EighthScript ==
  Moves(0, 4, 1, 9) \o Moves(1, 4, 1, 9) \o Moves(2, 4, 2, 9)
    \o UndoRedo \o UndoRedo \o UndoRedo \o UndoRedo
    \o Deal \o UndoRedo \o Moves(3, 5, 5, 9) \o UndoRedo
    \o Deal \o UndoRedo \o Moves(4, 6, 6, 9) \o UndoRedo
    \o Deal \o UndoRedo \o Moves(5, 7, 7, 9) \o UndoRedo
    \o Deal

InitEighth ==
  \E G \in {newGame(Loaded, EighthGame[1], EighthGame[2], EighthGame[3])} :
    /\ state = G.state
    /\ cards = G.cards
    /\ firstMoveLogged = G.firstMoveLogged
    /\ sent = G.sent
    /\ lastCall = [op |-> "newGame", ret |-> "undefined", msg |-> ""]
    /\ calls = ScriptEnd - Len(EighthScript)

ReplayEighth == Replayed(EighthScript)

NextEighth == ReplayEighth \/ (calls >= ScriptEnd /\ Next)

SpecEighth == InitEighth /\ [][NextEighth]_vars

\* ------------------------------------------------------------------------
\* Properties
\* ------------------------------------------------------------------------

\* a game has been started: newGame sets state.seed to a non-empty string
\* ---- a game won and taken back ----
\* the calls of EighthScript, which bring the foundations counter to 8
\* through dealRow, then a move, with which checkWin sets won, and the undo
\* of that move: the next entry to undo is the eighth completion
WonScript ==
  EighthScript \o <<[op |-> "doMove", a |-> <<0, 4, 4>>], [op |-> "undo", a |-> <<>>]>>

InitWon ==
  \E G \in {newGame(Loaded, EighthGame[1], EighthGame[2], EighthGame[3])} :
    /\ state = G.state
    /\ cards = G.cards
    /\ firstMoveLogged = G.firstMoveLogged
    /\ sent = G.sent
    /\ lastCall = [op |-> "newGame", ret |-> "undefined", msg |-> ""]
    /\ calls = ScriptEnd - Len(WonScript)

ReplayWon == Replayed(WonScript)

NextWon == ReplayWon \/ (calls >= ScriptEnd /\ Next)

SpecWon == InitWon /\ [][NextWon]_vars

\* ---- a long game: the score run down below the bonus of a run ----
\* the number of times a row is dealt and taken back
Rounds == 496

\* the 2-suit game without Aces after its three deals: the two moves that
\* complete K..2 on column 0, then a row dealt and taken back Rounds times
\* (each deal costs a point, no undo gives one back), then the undo that
\* takes the completion back
DrainScript ==
  <<[op |-> "doMove", a |-> <<1, 4, 0>>], [op |-> "doMove", a |-> <<2, 4, 0>>]>>
    \o [i \in 1..(2 * Rounds) |->
          [op |-> IF i % 2 = 1 THEN "dealRow" ELSE "undo", a |-> <<>>]]
    \o <<[op |-> "undo", a |-> <<>>]>>

InitDrain ==
  \E G \in {dealRows(newGame(Loaded, "2", "s1", FALSE), 3)} :
    /\ state = G.state
    /\ cards = G.cards
    /\ firstMoveLogged = G.firstMoveLogged
    /\ sent = G.sent
    /\ lastCall = [op |-> "dealRow", ret |-> "true", msg |-> ""]
    /\ calls = ScriptEnd - Len(DrainScript)

ReplayDrain == Replayed(DrainScript)

NextDrain == ReplayDrain \/ (calls >= ScriptEnd /\ Next)

SpecDrain == InitDrain /\ [][NextDrain]_vars

\* the two queries of the interface, asked between the calls of the engine:
\* the hint button and the inventory check
ComputeHint ==
  \E r \in {computeHint(World)} :
    /\ Becomes(r.G)
    /\ lastCall' = [op |-> "computeHint",
                    ret |-> IF r.hints = <<>> THEN "[]" ELSE "hints", msg |-> ""]
    /\ calls' = calls

VerifyInventory ==
  \E r \in {verifyInventory(World)} :
    /\ Becomes(r.G)
    /\ lastCall' = [op |-> "verifyInventory",
                    ret |-> IF r.ok THEN "ok" ELSE "issues", msg |-> ""]
    /\ calls' = calls

NextQueries == Next \/ ComputeHint \/ VerifyInventory

SpecQueries == Init /\ [][NextQueries]_vars

Started == state.seed # ""

\* the cards held by the ten columns, the stock and the foundations list
RECURSIVE ColumnsFrom(_, _)
ColumnsFrom(st, c) ==
  IF c >= NumCols THEN <<>> ELSE st.tableau[c] \o ColumnsFrom(st, c + 1)

Held(st) == ColumnsFrom(st, 0) \o st.stock \o st.foundationsCards

\* the ids createDeck made for the game being played
GameIds == {c.id : c \in Range(createDeck(state.difficulty, state.includeAces))}

\* the card objects of a container, in order
CardsOf(G, seq) == [i \in 1..Len(seq) |-> G.cards[seq[i]]]

\* where every card lies and how it is turned
Layout(G) ==
  [tableau |-> [c \in Cols |-> CardsOf(G, G.state.tableau[c])],
   stock |-> CardsOf(G, G.state.stock),
   foundationsCards |-> CardsOf(G, G.state.foundationsCards)]

\* the doMove calls of the current state that succeed, and dealRow if it does
AcceptedMoves == {a \in MoveArgs : moveCheck(World, a[1], a[2], a[3]).ret = "true"}

Forward ==
  {doMove(World, a[1], a[2], a[3]) : a \in AcceptedMoves}
    \cup {r \in {dealRow(World)} : r.ret = "true"}

RECURSIVE undoTimes(_, _)
undoTimes(G, k) ==
  IF k = 0 \/ G.state.history = <<>> THEN G ELSE undoTimes(undo(G).G, k - 1)

\* C1: in every state of a started game the ten columns, the stock and the
\* foundations card list hold 104 cards together when includeAces is true
\* and 96 when it is false
C1_CardConservation ==
  Started => Len(Held(state)) = IF state.includeAces THEN 104 ELSE 96

\* C2: in every state of a started game each id of the game's deck is held
\* exactly once across the columns, the stock and the foundations card list
C2_EachIdOnce ==
  Started =>
    LET held == Held(state)
    IN \A id \in GameIds :
         Cardinality({i \in 1..Len(held) : cards[held[i]].id = id}) = 1

\* C3: after a successful doMove or dealRow, one undo per history entry the
\* call pushed (the move or deal and the completions it triggered) brings
\* the columns, the stock, the foundations card list and every faceUp flag
\* back to what they were before the call
C3_UndoInverse ==
  Started =>
    \A r \in Forward :
      Layout(undoTimes(r.G, Len(r.G.state.history) - Len(state.history)))
        = Layout(World)

\* C4: with a non-empty history, undo followed at once by redo gives back
\* the columns, the stock, the foundations card list and counter,
\* dealsRemaining, the score and the move counter
C4_UndoRedo ==
  (Started /\ state.history # <<>>) =>
    LET G2 == redo(undo(World).G).G
    IN /\ Layout(G2) = Layout(World)
       /\ G2.state.foundations = state.foundations
       /\ G2.state.dealsRemaining = state.dealsRemaining
       /\ G2.state.score = state.score
       /\ G2.state.moves = state.moves

\* C5: a doMove call that returns false leaves the engine state as it was:
\* columns, stock, foundations, dealsRemaining, history, redo, move counter,
\* score, and every card object
C5_RejectedMoveChangesNothing ==
  \A a \in MoveArgs :
    LET r == doMove(World, a[1], a[2], a[3])
    IN r.ret = "false" => (r.G.state = state /\ r.G.cards = cards)

\* a rejected drop has just been answered in a started game
C5_Witness ==
  /\ Started
  /\ lastCall = [op |-> "doMove", ret |-> "false", msg |-> "Illegal move"]

\* the condition C6 gives for doMove(from, startIndex, to) to return true
ChainAndDrop(from, startIndex, to) ==
  LET src == state.tableau[from]
      dst == state.tableau[to]
  IN /\ \A i \in (startIndex + 1)..Len(src) : cards[src[i]].faceUp
     /\ \A i \in (startIndex + 1)..(Len(src) - 1) :
          /\ cards[src[i]].suit = cards[src[i + 1]].suit
          /\ cards[src[i]].rank = cards[src[i + 1]].rank + 1
     /\ \/ dst = <<>>
        \/ cards[dst[Len(dst)]].rank = cards[src[startIndex + 1]].rank + 1

\* C6: for distinct columns and a start index inside the source column,
\* doMove returns true exactly when the cards from startIndex up are all
\* face-up, chained in one suit descending by 1, and the destination is
\* empty or its top card is one rank above the card at startIndex
C6_MoveLegality ==
  Started =>
    \A a \in MoveArgs :
      (a[1] # a[3] /\ a[2] >= 0 /\ a[2] < Len(state.tableau[a[1]])) =>
        (doMove(World, a[1], a[2], a[3]).ret = "true"
           <=> ChainAndDrop(a[1], a[2], a[3]))

\* C7: a successful doMove takes the cards from startIndex up off the source
\* column and puts them in the same order on the destination; a face-down
\* card left on top of the source is turned face-up; no other column, no
\* other faceUp flag, neither stock nor dealsRemaining changes, except for
\* what a completion the move triggers does to those two columns
C7_MoveEffect ==
  Started =>
    \A a \in AcceptedMoves :
      LET from == a[1]
          to == a[3]
          src == state.tableau[from]
          dst == state.tableau[to]
          rest == SubSeq(src, 1, a[2])
          moved == SubSeq(src, a[2] + 1, Len(src))
          flips == rest # <<>> /\ ~cards[rest[Len(rest)]].faceUp
          r == doMove(World, from, a[2], to)
          st2 == r.G.state
          completed == Len(st2.history) > Len(state.history) + 1
          touched == Range(src) \cup Range(dst)
      IN /\ st2.stock = state.stock
         /\ st2.dealsRemaining = state.dealsRemaining
         /\ \A c \in Cols \ {from, to} : st2.tableau[c] = state.tableau[c]
         /\ ~completed => /\ st2.tableau[to] = dst \o moved
                          /\ st2.tableau[from] = rest
         /\ flips => r.G.cards[rest[Len(rest)]].faceUp
         /\ \A x \in DOMAIN cards \cap DOMAIN r.G.cards :
              r.G.cards[x].faceUp # cards[x].faceUp =>
                \/ flips /\ x = rest[Len(rest)]
                \/ completed /\ x \in touched

\* a move has just turned the card it uncovered
C7_Witness ==
  /\ Started
  /\ lastCall.op = "doMove" /\ lastCall.ret = "true"
  /\ state.history # <<>>
  /\ LET h == state.history[Len(state.history)]
     IN /\ h.t = "move"
        /\ h.turned # Null
        /\ cards[h.turned].faceUp
        /\ top(state.tableau[h.from]) = h.turned

\* C8: dealRow called while a column is empty returns false and leaves the
\* stock, the columns, dealsRemaining, history, redo, move counter and score
\* as they were
C8_DealNeedsFullColumns ==
  (\E c \in Cols : state.tableau[c] = <<>>) =>
    LET r == dealRow(World)
    IN r.ret = "false" /\ r.G.state = state /\ r.G.cards = cards

\* dealRow has just been refused over an empty column, cards still in stock
C8_Witness ==
  /\ Started
  /\ lastCall = [op |-> "dealRow", ret |-> "false",
                 msg |-> "Fill empty columns before dealing"]
  /\ \E c \in Cols : state.tableau[c] = <<>>
  /\ state.stock # <<>> /\ state.dealsRemaining > 0

\* C9: dealRow called with dealsRemaining = 0 returns false and changes
\* nothing: no history entry, redo kept, no move counted, no score penalty
C9_DealNeedsDealsLeft ==
  (Started /\ state.dealsRemaining = 0) =>
    LET r == dealRow(World)
    IN r.ret = "false" /\ r.G.state = state /\ r.G.cards = cards

\* C10: with every column non-empty, dealsRemaining > 0 and ten or more
\* cards in the stock, dealRow returns true, takes the first ten cards off
\* the stock and keeps the rest in order, lays the k-th of them face-up on
\* column k, lowers dealsRemaining by 1 and pushes one deal entry holding the
\* ten cards.  A column from which the call then completes a run is left as
\* the completion leaves it; the entries after the deal entry are those
\* completions.
C10_DealEffect ==
  (/\ Started
   /\ \A c \in Cols : state.tableau[c] # <<>>
   /\ state.dealsRemaining > 0
   /\ Len(state.stock) >= 10) =>
    LET r == dealRow(World)
        st2 == r.G.state
        n == Len(state.history)
        ten == SubSeq(state.stock, 1, 10)
        pushed == {st2.history[i] : i \in (n + 2)..Len(st2.history)}
    IN /\ r.ret = "true"
       /\ st2.stock = SubSeq(state.stock, 11, Len(state.stock))
       /\ st2.dealsRemaining = state.dealsRemaining - 1
       /\ Len(st2.history) > n
       /\ SubSeq(st2.history, 1, n) = state.history
       /\ st2.history[n + 1] = [t |-> "deal", dealt |-> ten]
       /\ \A h \in pushed : h.t = "complete"
       /\ \A c \in Cols :
            /\ r.G.cards[ten[c + 1]].faceUp
            /\ (\A h \in pushed : h.col # c) =>
                 st2.tableau[c] = Append(state.tableau[c], ten[c + 1])

\* a row has just been dealt: the ten cards of the deal entry lie face-up on
\* top of the ten columns
C10_Witness ==
  /\ Started
  /\ calls > 0
  /\ lastCall.op = "dealRow" /\ lastCall.ret = "true"
  /\ state.history # <<>>
  /\ LET h == state.history[Len(state.history)]
     IN /\ h.t = "deal"
        /\ Len(h.dealt) = 10
        /\ \A c \in Cols : /\ top(state.tableau[c]) = h.dealt[c + 1]
                           /\ cards[h.dealt[c + 1]].faceUp

\* the length of a complete run: King down to Ace, or King down to 2
RunLength(includeAces) == IF includeAces THEN 13 ELSE 12

\* the top RunLength cards of col are face-up, of one suit, and run from
\* King at the bottom of the run down to Ace (to 2) at the top
TopRun(h, col, includeAces) ==
  LET L == RunLength(includeAces)
      b == Len(col) - L
  IN /\ b >= 0
     /\ \A k \in 1..L : /\ h[col[b + k]].faceUp
                        /\ h[col[b + k]].suit = h[col[b + 1]].suit
                        /\ h[col[b + k]].rank = 14 - k

IdsOf(h, seq) == [i \in 1..Len(seq) |-> h[seq[i]].id]

\* what a call owes a touched column that held pre, turned as in h, before
\* completion detection ran: nothing if pre has no complete run on top;
\* otherwise the run is gone from the column and lies in the foundations
\* list, one complete entry was pushed for the column, and the card
\* uncovered is face-up
RunTaken(h, pre, c, r) ==
  LET inc == state.includeAces
      L == RunLength(inc)
      st2 == r.G.state
      run == SubSeq(pre, Len(pre) - L + 1, Len(pre))
      below == SubSeq(pre, 1, Len(pre) - L)
      gained == SubSeq(st2.foundationsCards, Len(state.foundationsCards) + 1,
                       Len(st2.foundationsCards))
      pushed == {i \in (Len(state.history) + 1)..Len(st2.history) :
                   st2.history[i].t = "complete"}
  IN /\ ~TopRun(r.G.cards, st2.tableau[c], inc)
     /\ st2.foundations = state.foundations + Cardinality(pushed)
     /\ TopRun(h, pre, inc) =>
          /\ IdsOf(r.G.cards, st2.tableau[c]) = IdsOf(h, below)
          /\ Range(IdsOf(h, run)) \subseteq Range(IdsOf(r.G.cards, gained))
          /\ Cardinality({i \in pushed : st2.history[i].col = c}) = 1
          /\ below # <<>> => r.G.cards[top(st2.tableau[c])].faceUp

\* C11: after a successful doMove or dealRow no touched column is left with
\* a complete run on top: if the top 13 cards (12 without aces) of the
\* destination or the source of a move, or of any column after a deal, are
\* face-up, of one suit and run from King down to Ace (to 2), the run has
\* gone to the foundations list, the foundations counter has risen by one
\* for it, and the card uncovered beneath is face-up
C11_CompleteRunRemoved ==
  Started =>
    /\ \A a \in AcceptedMoves :
         LET src == state.tableau[a[1]]
             rest == SubSeq(src, 1, a[2])
             moved == SubSeq(src, a[2] + 1, Len(src))
             h == IF rest # <<>>
                    THEN [cards EXCEPT ![top(rest)].faceUp = TRUE] ELSE cards
             r == doMove(World, a[1], a[2], a[3])
         IN /\ RunTaken(h, state.tableau[a[3]] \o moved, a[3], r)
            /\ RunTaken(h, rest, a[1], r)
    /\ LET r == dealRow(World)
           n == Min(10, Len(state.stock))
           h == [x \in DOMAIN cards |->
                   IF x \in {state.stock[i] : i \in 1..n}
                     THEN [cards[x] EXCEPT !.faceUp = TRUE] ELSE cards[x]]
       IN r.ret = "true" =>
            \A c \in Cols :
              RunTaken(h, IF c < n THEN Append(state.tableau[c], state.stock[c + 1])
                          ELSE state.tableau[c], c, r)

\* a move has just completed a run: the last history entry is the
\* completion, the run lies at the end of the foundations list in the order
\* it was taken off the column, top card first, and the card it uncovered
\* was turned
C11_Witness ==
  /\ Started
  /\ lastCall.op = "doMove" /\ lastCall.ret = "true"
  /\ state.history # <<>>
  /\ LET e == state.history[Len(state.history)]
         L == RunLength(state.includeAces)
         fc == state.foundationsCards
     IN /\ e.t = "complete"
        /\ Len(e.cards) = L
        /\ Len(fc) >= L
        /\ \A k \in 1..L : cards[fc[Len(fc) - L + k]].rank = 13 - L + k
        /\ e.turned # Null
        /\ top(state.tableau[e.col]) = e.turned
        /\ cards[e.turned].faceUp

\* a call that pushed a complete entry for column c, which held pre, turned
\* as in h, before completion detection ran, took a complete run off the top
\* of pre and nothing else
OnlyRunTaken(h, pre, c, r) ==
  LET inc == state.includeAces
      L == RunLength(inc)
      st2 == r.G.state
      run == SubSeq(pre, Len(pre) - L + 1, Len(pre))
      below == SubSeq(pre, 1, Len(pre) - L)
  IN \A i \in (Len(state.history) + 1)..Len(st2.history) :
       (st2.history[i].t = "complete" /\ st2.history[i].col = c) =>
         /\ TopRun(h, pre, inc)
         /\ Len(st2.history[i].cards) = L
         /\ Range(IdsOf(r.G.cards, st2.history[i].cards)) = Range(IdsOf(h, run))
         /\ IdsOf(r.G.cards, st2.tableau[c]) = IdsOf(h, below)

\* C12: every group of cards that completion detection takes off a column
\* is 13 cards (12 without aces), all face-up, of one suit, one of each rank
\* from King to Ace (to 2), lying at the top of the column in descending
\* order from bottom to top; no other card leaves the column
C12_OnlyCompleteRunsRemoved ==
  Started =>
    /\ \A a \in AcceptedMoves :
         LET src == state.tableau[a[1]]
             rest == SubSeq(src, 1, a[2])
             moved == SubSeq(src, a[2] + 1, Len(src))
             h == IF rest # <<>>
                    THEN [cards EXCEPT ![top(rest)].faceUp = TRUE] ELSE cards
             r == doMove(World, a[1], a[2], a[3])
         IN /\ OnlyRunTaken(h, state.tableau[a[3]] \o moved, a[3], r)
            /\ OnlyRunTaken(h, rest, a[1], r)
    /\ LET r == dealRow(World)
           n == Min(10, Len(state.stock))
           h == [x \in DOMAIN cards |->
                   IF x \in {state.stock[i] : i \in 1..n}
                     THEN [cards[x] EXCEPT !.faceUp = TRUE] ELSE cards[x]]
       IN r.ret = "true" =>
            \A c \in Cols :
              OnlyRunTaken(h, IF c < n THEN Append(state.tableau[c], state.stock[c + 1])
                              ELSE state.tableau[c], c, r)

DealtAs(G, lens) ==
  /\ Len(G.state.stock) = 50
  /\ \A i \in 1..Len(G.state.stock) : ~G.cards[G.state.stock[i]].faceUp
  /\ G.state.dealsRemaining = 5
  /\ \A c \in Cols :
       LET col == G.state.tableau[c]
       IN /\ Len(col) = lens[c]
          /\ \A i \in 1..Len(col) : G.cards[col[i]].faceUp <=> (i = Len(col))

\* C14 as stated: right after newGame, for every difficulty and both
\* includeAces settings, columns 1-4 hold 6 cards and columns 5-10 hold 5,
\* the stock holds 50 face-down cards, dealsRemaining is 5 and in every column
\* exactly the top card is face-up
C14_DealtLayout ==
  \A g \in Games :
    DealtAs(newGame(World, g[1], g[2], g[3]), [c \in Cols |-> IF c < 4 THEN 6 ELSE 5])

\* C14, amended: right after newGame, for every difficulty, the stock holds
\* 50 face-down cards, dealsRemaining is 5 and in every column exactly the
\* top card is face-up; with includeAces true columns 1-4 hold 6 cards and
\* columns 5-10 hold 5, with includeAces false columns 1-6 hold 5 cards and
\* columns 7-10 hold 4
C14_DealtLayoutByDeck ==
  \A g \in Games :
    DealtAs(newGame(World, g[1], g[2], g[3]),
            [c \in Cols |-> IF g[3] THEN (IF c < 4 THEN 6 ELSE 5)
                            ELSE (IF c < 6 THEN 5 ELSE 4)])

\* newGame has just dealt a deck without aces during play: 46 cards lie in
\* the columns, five on the first and four on the last
C14_Witness ==
  /\ lastCall.op = "newGame"
  /\ calls > 0
  /\ ~state.includeAces
  /\ Len(state.stock) = 50
  /\ Len(state.tableau[0]) = 5 /\ Len(state.tableau[9]) = 4
  /\ Len(ColumnsFrom(state, 0)) = 46
  /\ cards[top(state.tableau[9])].faceUp

\* C15: in every state of a started game dealsRemaining equals the stock
\* length divided by ten, rounded up
C15_DealsMatchStock ==
  Started => state.dealsRemaining = (Len(state.stock) + 9) \div 10

\* C16: in every state of a started game the foundations counter times the
\* run length (13 with aces, 12 without) equals the number of cards in the
\* foundations card list
C16_CounterMatchesList ==
  Started =>
    state.foundations * RunLength(state.includeAces) = Len(state.foundationsCards)

\* C17: in every state of a started game no column holds a face-down card
\* above a face-up card
C17_FaceDownBelowFaceUp ==
  Started =>
    \A c \in Cols :
      LET col == state.tableau[c]
      IN \A i, j \in 1..Len(col) :
           (i < j /\ cards[col[i]].faceUp) => cards[col[j]].faceUp

\* C18: whenever the foundations counter is 8 the won flag is set
C18_EightRunsWon ==
  Started => (state.foundations = 8 => state.won)

\* what C19 compares of two engine states: the piles card by card, the
\* counters, the seed and the difficulty
Restored(G) ==
  [layout |-> Layout(G), foundations |-> G.state.foundations,
   dealsRemaining |-> G.state.dealsRemaining, moves |-> G.state.moves,
   score |-> G.state.score, seed |-> G.state.seed,
   difficulty |-> G.state.difficulty]

\* C19: loading the snapshot serializeGameState makes of a state gives back
\* the tableau, the stock, the foundations card list and counter,
\* dealsRemaining, the move counter, the score, the seed and the difficulty
\* of that state
C19_SnapshotRoundTrip ==
  Started =>
    Restored(loadSnapshot(World, serializeGameState(World))) = Restored(World)

\* what C20 lists of an engine state G is as in the current state
Untouched(G) ==
  /\ Layout(G) = Layout(World)
  /\ G.state.foundations = state.foundations
  /\ G.state.dealsRemaining = state.dealsRemaining
  /\ G.state.score = state.score
  /\ G.state.moves = state.moves
  /\ G.state.history = state.history
  /\ G.state.redo = state.redo

\* C20: undo called with an empty history stack and redo called with an
\* empty redo stack leave tableau, stock, foundations, dealsRemaining, score,
\* the move counter and both stacks as they were
C20_EmptyStacksNoOp ==
  /\ state.history = <<>> => Untouched(undo(World).G)
  /\ state.redo = <<>> => Untouched(redo(World).G)

\* undo has just been called in a started game with nothing to undo: a call
\* that undid an entry would have left it on the redo stack
C20_Witness ==
  /\ Started
  /\ lastCall.op = "undo"
  /\ state.history = <<>>
  /\ state.redo = <<>>

\* what C21 asks of the result r of a doMove or dealRow call: accepted, the
\* redo stack is empty and a redo that follows changes nothing; turned
\* down, the redo stack is the one before the call
RedoCleared(r) ==
  /\ r.ret = "true" => /\ r.G.state.redo = <<>>
                       /\ redo(r.G).G = r.G
  /\ r.ret = "false" => r.G.state.redo = state.redo

\* C21: after every successful doMove or dealRow the redo stack is empty and
\* a redo issued next changes nothing; a rejected doMove or dealRow leaves
\* the redo stack as it was
C21_RedoCleared ==
  Started =>
    /\ \A a \in MoveArgs : RedoCleared(doMove(World, a[1], a[2], a[3]))
    /\ RedoCleared(dealRow(World))

\* an undo has just left an entry on the redo stack, and both a move and a
\* deal are accepted from here
C21_Witness ==
  /\ Started
  /\ lastCall.op = "undo"
  /\ state.redo # <<>>
  /\ AcceptedMoves # {}
  /\ dealRow(World).ret = "true"

\* the run completions a call with result r has triggered: the complete
\* entries it pushed onto the history after its own entry
Completions(r) ==
  LET old == Len(state.history)
      new == r.G.state.history
  IN Cardinality({i \in (old + 1)..Len(new) : new[i].t = "complete"})

\* what C22 asks of the result r of a doMove or dealRow call
Scored(r) ==
  /\ r.ret = "true" =>
       /\ r.G.state.moves = state.moves + 1
       /\ r.G.state.score = Max(0, state.score - 1) + CompleteBonus * Completions(r)
  /\ r.ret = "false" =>
       /\ r.G.state.moves = state.moves
       /\ r.G.state.score = state.score

Hints == computeHint(World).hints

\* C23: computeHint returns exactly one candidate for each (from, start, to)
\* for which doMove returns true, none for any other triple, and each
\* candidate's cardCount is the number of cards from start to the top of
\* its source column
C23_HintsAreTheLegalMoves ==
  Started =>
    \A hs \in {Hints} :
      \A triples \in {{<<hs[k].from, hs[k].start, hs[k].to>> : k \in 1..Len(hs)}} :
        /\ triples = {a \in MoveArgs : doMove(World, a[1], a[2], a[3]).ret = "true"}
        /\ Cardinality(triples) = Len(hs)
        /\ \A k \in 1..Len(hs) :
             hs[k].cardCount = Len(state.tableau[hs[k].from]) - hs[k].start

\* the score C24 gives the candidate hint
HintScore(hint) ==
  LET col == state.tableau[hint.from]
      head == cards[col[hint.start + 1]]
      dest == state.tableau[hint.to]
  IN (IF hint.start > 0 /\ ~cards[col[hint.start]].faceUp THEN 3 ELSE 0)
       + (IF dest # <<>> /\ cards[top(dest)].suit = head.suit
                         /\ cards[top(dest)].rank = head.rank + 1 THEN 2 ELSE 0)
       + (IF hint.start = 0 THEN 2 ELSE 0)

\* C24: the score of each candidate of computeHint is 3 if the card directly
\* beneath start is face-down, plus 2 if the destination's top card has the
\* suit of the moved head card and is one rank higher, plus 2 if start is
\* the first card of the source column, and nothing else
C24_HintScore ==
  Started =>
    \A hs \in {Hints} : \A k \in 1..Len(hs) : hs[k].score = HintScore(hs[k])

FoundAfter(a, b) ==
  \/ a.from > b.from
  \/ a.from = b.from /\ a.start > b.start
  \/ a.from = b.from /\ a.start = b.start /\ a.to > b.to

DeckAsClaimed(deck, difficulty, includeAces) ==
  LET n == Len(deck)
      ofRank(r) == Cardinality({i \in 1..n : deck[i].rank = r})
      ofSuit(s) == Cardinality({i \in 1..n : deck[i].suit = s})
      suits == {deck[i].suit : i \in 1..n}
      suitsWanted == IF difficulty = "1-suit" THEN 1
                     ELSE IF difficulty = "2-suit" THEN 2 ELSE 4
  IN /\ \A i, j \in 1..n : i # j => deck[i].id # deck[j].id
     /\ \A i \in 1..n : ~deck[i].faceUp
     /\ \A r \in 2..13 : ofRank(r) = 8
     /\ ofRank(1) = (IF includeAces THEN 8 ELSE 0)
     /\ n = (IF includeAces THEN 104 ELSE 96)
     /\ Cardinality(suits) = suitsWanted
     /\ \A s \in suits : ofSuit(s) * suitsWanted = n

\* the cards newGame has laid out, as createDeck made them (face-down)
LaidOut ==
  {[cards[a] EXCEPT !.faceUp = FALSE] :
     a \in UNION {Range(state.tableau[c]) : c \in Cols} \cup Range(state.stock)}

\* C27: createDeck(difficulty, includeAces) returns cards with pairwise
\* distinct ids, all face-down, 8 of each rank 2..13 and 8 Aces with
\* includeAces or none without (104 or 96 cards), of one suit for 1-suit,
\* split equally over two suits for 2-suit and over four for 4-suit; and the
\* cards a new game lays out are that deck
C27_CreateDeck ==
  /\ \A difficulty \in {"1-suit", "2-suit", "4-suit"} : \A includeAces \in BOOLEAN :
       DeckAsClaimed(createDeck(difficulty, includeAces), difficulty, includeAces)
  /\ lastCall.op = "newGame" =>
       LaidOut = Range(createDeck(state.difficulty, state.includeAces))

\* a game without Aces has just been laid out from the 96 cards of its deck
C27_Witness ==
  /\ lastCall.op = "newGame"
  /\ ~state.includeAces
  /\ state.difficulty = "2-suit"
  /\ Cardinality(LaidOut) = 96
  /\ ~\E c \in LaidOut : c.rank = 1


\* C28: after a successful doMove or dealRow that triggers no run completion
\* (the call pushes its own history entry and no other), a single undo
\* restores the tableau (card order and faceUp flags, the card the move
\* flipped included), the stock (same cards in the same order, all
\* face-down) and dealsRemaining to what they were before the call
C28_UndoRestores ==
  Started =>
    \A r \in Forward :
      Len(r.G.state.history) = Len(state.history) + 1 =>
        \A u \in {undo(r.G).G} :
          /\ Layout(u).tableau = Layout(World).tableau
          /\ Layout(u).stock = Layout(World).stock
          /\ \A i \in 1..Len(u.state.stock) : ~u.cards[u.state.stock[i]].faceUp
          /\ u.state.dealsRemaining = state.dealsRemaining


\* the calls of Forward that trigger exactly one run completion: the call
\* pushes its move or deal entry and one complete entry
ForwardOneRun ==
  {r \in Forward :
     /\ Len(r.G.state.history) = Len(state.history) + 2
     /\ r.G.state.history[Len(r.G.state.history)].t = "complete"}

\* column c as the call behind r left it just before its completion: the
\* cards the move or deal brought lie on it, the card the completion is
\* about to flip is still face-down
BeforeCompletion(r, c) ==
  LET hist == r.G.state.history
      h == hist[Len(hist)]
      e == hist[Len(hist) - 1]
      src == state.tableau[c]
      col == IF e.t = "deal" THEN src \o SubSeq(state.stock, c + 1, c + 1)
             ELSE IF c = e.to
               THEN src \o SubSeq(state.tableau[e.from],
                                  Len(state.tableau[e.from]) - Len(e.moved) + 1,
                                  Len(state.tableau[e.from]))
             ELSE IF c = e.from THEN SubSeq(src, 1, Len(src) - Len(e.moved))
             ELSE src
  IN [i \in 1..Len(col) |->
        IF col[i] = h.turned THEN [r.G.cards[col[i]] EXCEPT !.faceUp = FALSE]
        ELSE r.G.cards[col[i]]]

\* C29: undo of a complete entry puts the removed cards back on top of their
\* column in their original bottom-to-top order (the King lowest), turns the
\* card the completion flipped face-down again, removes exactly those cards
\* from the foundations list, decrements the foundations counter by 1 and
\* subtracts 100 from the score: the column is as it was just before the
\* completion
C29_UndoComplete ==
  Started =>
    \A r \in ForwardOneRun :
      \A h \in {r.G.state.history[Len(r.G.state.history)]} :
        \A u \in {undo(r.G).G} :
          /\ CardsOf(u, u.state.tableau[h.col]) = BeforeCompletion(r, h.col)
          /\ CardsOf(u, u.state.foundationsCards)
               = CardsOf(World, state.foundationsCards)
          /\ u.state.foundations = r.G.state.foundations - 1
          /\ u.state.score = r.G.state.score - 100


\* C30: redo of a complete entry removes from the column exactly the cards
\* recorded in the entry (13 with includeAces, 12 without) and no other
\* card, appends them to the foundations list, increments the foundations
\* counter by 1 and adds 100 to the score
C30_RedoComplete ==
  (Started /\ state.redo # <<>> /\ state.redo[Len(state.redo)].t = "complete") =>
    \A h \in {state.redo[Len(state.redo)]} :
      \A g \in {redo(World).G} :
        /\ Len(h.cards) = (IF state.includeAces THEN 13 ELSE 12)
        /\ g.state.tableau[h.col]
             = SelectSeq(state.tableau[h.col], LAMBDA a : a \notin Range(h.cards))
        /\ Len(g.state.tableau[h.col]) = Len(state.tableau[h.col]) - Len(h.cards)
        /\ g.state.foundationsCards = state.foundationsCards \o h.cards
        /\ g.state.foundations = state.foundations + 1
        /\ g.state.score = state.score + 100


\* the game newGame starts for g is fresh: stacks empty, counters at their
\* start values, and every card of the new deck, and nothing else, in the
\* tableau or the stock
FreshGame(n, g) ==
  LET inPlay == ColumnsFrom(n.state, 0) \o n.state.stock
      deck == createDeck(canonDiffLabel(g[1]), g[3])
  IN /\ n.state.history = <<>>
     /\ n.state.redo = <<>>
     /\ n.state.moves = 0
     /\ n.state.score = 500
     /\ n.state.foundations = 0
     /\ n.state.foundationsCards = <<>>
     /\ ~n.state.won
     /\ n.state.dealsRemaining = 5
     /\ Len(inPlay) = Len(deck)
     /\ {n.cards[inPlay[i]].id : i \in 1..Len(inPlay)} = {deck[i].id : i \in 1..Len(deck)}

\* C31: newGame called in any reachable state, one in which runs were
\* completed included, yields a fresh game: empty history and redo stacks,
\* move counter 0, score 500, foundations counter 0, an empty foundations
\* card list, won false, dealsRemaining 5, and every card of the new deck in
\* the tableau or the stock and nowhere else
C31_NewGameFresh ==
  \A g \in Games : FreshGame(newGame(World, g[1], g[2], g[3]), g)


\* C32: in every state of a started game the top card of every non-empty
\* column is face-up
C32_TopsFaceUp ==
  Started =>
    \A c \in Cols :
      state.tableau[c] # <<>> => cards[top(state.tableau[c])].faceUp


RECURSIVE redoTimes(_, _)
redoTimes(G, k) ==
  IF k = 0 \/ G.state.redo = <<>> THEN G ELSE redoTimes(redo(G).G, k - 1)

\* C33: undo moves exactly the most recent history entry onto the redo stack
\* and redo moves exactly the most recently undone entry back onto the
\* history stack; neither changes the number of entries in history plus
\* redo, and after k undos followed by k redos the history stack holds the
\* same entries in the same order as before
C33_StacksMirror ==
  Started =>
    /\ state.history # <<>> =>
         \A u \in {undo(World).G} :
           /\ u.state.history = SubSeq(state.history, 1, Len(state.history) - 1)
           /\ u.state.redo = Append(state.redo, state.history[Len(state.history)])
    /\ state.redo # <<>> =>
         \A g \in {redo(World).G} :
           /\ g.state.redo = SubSeq(state.redo, 1, Len(state.redo) - 1)
           /\ g.state.history = Append(state.history, state.redo[Len(state.redo)])
    /\ \A k \in 1..Len(state.history) :
         redoTimes(undoTimes(World, k), k).state.history = state.history


\* the calls to GameHistory.onFirstMove or onMove among the calls of a handler
SavesIn(calls_) == SelectSeq(calls_, LAMBDA c : c.fn \in {"onFirstMove", "onMove"})

\* those the last handler made
Saves == SavesIn(sent)

\* C34: the snapshot (cards, move counter, score) that a successful doMove
\* or dealRow hands to GameHistory.onFirstMove or onMove equals the engine
\* state at the end of that operation, the run completions it triggered
\* included
C34_SnapshotIsEndState ==
  (lastCall.op \in {"doMove", "dealRow"} /\ lastCall.ret = "true") =>
    /\ Len(Saves) = 1
    /\ Saves[1].payload.snapshot = serializeGameState(World)
    /\ Saves[1].payload.moves = state.moves
    /\ Saves[1].payload.score = state.score


\* the step is a successful doMove, dealRow, undo or redo
Succeeds ==
  \/ lastCall'.op \in {"doMove", "dealRow"} /\ lastCall'.ret = "true"
  \/ lastCall'.op = "undo" /\ lastCall'.ret = "undefined" /\ state.history # <<>>
  \/ lastCall'.op = "redo" /\ lastCall'.ret = "undefined" /\ state.redo # <<>>

\* the step is a call that is turned down or finds its stack empty
TurnedDown ==
  \/ lastCall'.op \in {"doMove", "dealRow"} /\ lastCall'.ret = "false"
  \/ lastCall'.op = "undo" /\ state.history = <<>>
  \/ lastCall'.op = "redo" /\ state.redo = <<>>

\* C35: between one newGame and the next GameHistory.onFirstMove is called
\* exactly once, by the first successful doMove, dealRow, undo or redo (the
\* one that finds the move counter at 0), and every later successful
\* operation calls onMove instead; rejected doMove and dealRow calls and
\* undo and redo on an empty stack call neither
C35_FirstMoveOnce ==
  [][/\ Succeeds =>
          /\ Len(SavesIn(sent')) = 1
          /\ SavesIn(sent')[1].fn = (IF state.moves = 0 THEN "onFirstMove" ELSE "onMove")
     /\ TurnedDown => sent' = <<>>
     /\ lastCall'.op = "newGame" => sent' = <<>>]_vars

\* the first move of a game has gone to onFirstMove, or a later one to
\* onMove after an undo
C35_Witness ==
  /\ sent # <<>>
  /\ \/ state.moves = 1 /\ lastCall.op = "doMove" /\ sent[1].fn = "onFirstMove"
     \/ state.moves = 5 /\ lastCall.op = "redo" /\ sent[1].fn = "onMove"


\* C36: in every state of a started game the score is not negative
C36_ScoreNotNegative ==
  Started => state.score >= 0


\* C37: the move counter never decreases between two newGame calls and
\* counts every state-changing operation: newGame sets it to 0, every
\* successful doMove, dealRow, undo and redo adds 1 (undo and redo do not
\* restore an earlier value), and a call that is turned down leaves it
C37_MovesCount ==
  [][/\ lastCall'.op = "newGame" => state'.moves = 0
     /\ Succeeds => state'.moves = state.moves + 1
     /\ TurnedDown => state'.moves = state.moves
     /\ lastCall'.op # "newGame" => state'.moves >= state.moves]_vars

\* an undo and a redo have each added 1 to the counter of a game
C37_Witness ==
  /\ lastCall.op = "redo"
  /\ state.history # <<>>
  /\ state.moves = 6
  /\ Cardinality({i \in 1..Len(state.history) : state.history[i].t # "complete"}) = 4


\* the stock newGame dealt for the game being played: its cards as they lay,
\* face-down
DealtStock ==
  LET deal == FreshDeals[CHOOSE g \in Games \cup {EighthGame} :
                           /\ canonDiffLabel(g[1]) = state.difficulty
                           /\ g[2] = state.seed
                           /\ g[3] = state.includeAces]
  IN [i \in 1..Len(deal.stock) |-> deal.cards[deal.stock[i]]]

\* C38: in every state of a started game the stock is a suffix of the
\* 50-card stock dealt by newGame (the same cards in the same order, all
\* face-down), so the stock never holds more than 50 cards and
\* dealsRemaining never exceeds 5
C38_StockIsSuffix ==
  Started =>
    \A dealt \in {DealtStock} :
      /\ Len(dealt) = 50
      /\ Len(state.stock) <= 50
      /\ CardsOf(World, state.stock)
           = SubSeq(dealt, Len(dealt) - Len(state.stock) + 1, Len(dealt))
      /\ state.dealsRemaining <= 5


\* C39: in every state of a started game the won flag is true only if the
\* foundations counter is 8: undoing the winning completion clears the win
C39_WonOnlyWithEight ==
  Started => (state.won => state.foundations = 8)


\* C40: undo and redo run to completion without error in every state of a
\* started game: when the entry to undo is a deal every column holds a card
\* to pop, when the entry to redo is a deal the stock holds at least 10
\* cards, and neither call stops with an error, half-applied
C40_UndoRedoComplete ==
  Started =>
    /\ (state.history # <<>> /\ state.history[Len(state.history)].t = "deal") =>
         \A c \in Cols : state.tableau[c] # <<>>
    /\ (state.redo # <<>> /\ state.redo[Len(state.redo)].t = "deal") =>
         Len(state.stock) >= 10
    /\ undo(World).ret = "undefined"
    /\ redo(World).ret = "undefined"

====
